---------------------------- MODULE Spec2Model ----------------------------
(***************************************************************************)
(* Model of the vessel financial analysis engine                           *)
(* (backend/models/VesselFinancialModel.js).                               *)
(*                                                                         *)
(* One calculation request is modelled: a raw parameter map is handed to   *)
(* the constructor (validateParameters), and calculateFinancialMetrics     *)
(* then runs its steps in the order the code evaluates them.               *)
(*                                                                         *)
(* JavaScript values are encoded as pairs of integers <<n, d>>:            *)
(*   d > 0            the number n/d in lowest terms                       *)
(*   <<1,0>> <<-1,0>> +Infinity and -Infinity                              *)
(*   <<0,0>>          NaN                                                  *)
(*   <<0,-1>>         undefined                                            *)
(*   <<0,-2>>         null                                                 *)
(*   <<i,-3>>         the i-th string of a small table                     *)
(* Arithmetic on numbers is exact rational arithmetic with the IEEE rules  *)
(* for division by zero, Infinity and NaN; the rounding of doubles and the *)
(* sign of zero are not modelled.                                          *)
(***************************************************************************)
EXTENDS Integers, Sequences, FiniteSets, TLC

(***************************************************************************)
(* Numbers                                                                 *)
(***************************************************************************)
Abs(i) == IF i < 0 THEN -i ELSE i

Sgn(i) == IF i < 0 THEN -1 ELSE IF i > 0 THEN 1 ELSE 0

RECURSIVE GCD(_, _)
GCD(a, b) == IF b = 0 THEN a ELSE GCD(b, a % b)

\* n/d as a value: lowest terms, positive denominator; x/0 is an infinity or NaN.
Norm(n, d) ==
    IF d = 0 THEN <<Sgn(n), 0>>
    ELSE LET g == GCD(Abs(n), Abs(d))
         IN  <<(Sgn(d) * n) \div g, Abs(d) \div g>>

N(i) == <<i, 1>>

NaN == <<0, 0>>
PosInf == <<1, 0>>
NegInf == <<-1, 0>>
Undefined == <<0, -1>>
Null == <<0, -2>>
Str(i) == <<i, -3>>

IsNumber(x) == x[2] >= 0
IsNaN(x) == x = NaN
IsFinite(x) == x[2] > 0
IsInf(x) == x[2] = 0 /\ x[1] # 0

Neg(x) == <<-x[1], x[2]>>

Add(x, y) ==
    IF IsNaN(x) \/ IsNaN(y) THEN NaN
    ELSE IF IsInf(x) THEN (IF IsInf(y) /\ y # x THEN NaN ELSE x)
    ELSE IF IsInf(y) THEN y
    ELSE LET g == GCD(x[2], y[2])
         IN  Norm(x[1] * (y[2] \div g) + y[1] * (x[2] \div g), (x[2] \div g) * y[2])

Sub(x, y) == Add(x, Neg(y))

Mul(x, y) ==
    IF IsNaN(x) \/ IsNaN(y) THEN NaN
    ELSE IF IsInf(x) \/ IsInf(y)
         THEN (IF x[1] = 0 \/ y[1] = 0 THEN NaN ELSE <<Sgn(x[1]) * Sgn(y[1]), 0>>)
    ELSE LET g1 == GCD(Abs(x[1]), y[2])
             g2 == GCD(Abs(y[1]), x[2])
         IN  Norm((x[1] \div g1) * (y[1] \div g2), (x[2] \div g2) * (y[2] \div g1))

\* 1/x: 1/0 is +Infinity, 1/Infinity is 0, 1/NaN is NaN.
Inv(x) == IF IsInf(x) THEN N(0) ELSE Norm(x[2], x[1])

Div(x, y) == Mul(x, Inv(y))

\* x < y; any comparison with NaN is false.
Lt(x, y) ==
    IF IsNaN(x) \/ IsNaN(y) THEN FALSE
    ELSE IF IsInf(x) THEN x = NegInf /\ y # NegInf
    ELSE IF IsInf(y) THEN y = PosInf
    ELSE x[1] * y[2] < y[1] * x[2]

\* x === y on numbers: NaN equals nothing.
Eq(x, y) == ~IsNaN(x) /\ ~IsNaN(y) /\ x = y

Le(x, y) == Lt(x, y) \/ Eq(x, y)
Gt(x, y) == Lt(y, x)
Ge(x, y) == Le(y, x)

\* Math.min of two numbers.
Min(x, y) == IF IsNaN(x) \/ IsNaN(y) THEN NaN ELSE IF Lt(y, x) THEN y ELSE x

\* Math.pow(x, k) for an integer exponent k.
RECURSIVE PowNat(_, _)
PowNat(x, k) == IF k = 0 THEN N(1) ELSE Mul(x, PowNat(x, k - 1))

Pow(x, k) == IF k >= 0 THEN PowNat(x, k) ELSE Inv(PowNat(x, -k))

\* Math.floor and Math.ceil of a finite number, as integers.
Floor(x) == x[1] \div x[2]
Ceil(x) == -((-x[1]) \div x[2])

\* Math.round of a finite number (half rounds up), as an integer.
Round(x) == (2 * x[1] + x[2]) \div (2 * x[2])

\* The truth value JavaScript gives a value in a || b.
Truthy(x) ==
    CASE x[2] > 0  -> x[1] # 0
      [] x[2] = 0  -> x[1] # 0
      [] x[2] = -3 -> x[1] >= 0
      [] OTHER     -> FALSE

\* a || b
OrElse(a, b) == IF Truthy(a) THEN a ELSE b

\* parseFloat of a JSON value: a number parses to itself, undefined and null to NaN.
parseFloat(v) == IF IsNumber(v) THEN v ELSE NaN

\* parseInt of a JSON value: a finite number is truncated toward zero,
\* anything else gives NaN.
parseInt(v) ==
    IF IsFinite(v) THEN N(Sgn(v[1]) * (Abs(v[1]) \div v[2])) ELSE NaN

\* The number a raw value coerces to in an arithmetic expression (ToNumber).
ToNumber(v) == IF IsNumber(v) THEN v ELSE IF v = Null THEN N(0) ELSE NaN

(***************************************************************************)
(* Parameter Normalizer: constructor and validateParameters                *)
(***************************************************************************)
\* The strings the model needs: 'Unknown', 'USD' and the vessel type of the
\* test suite's parameter map.
StrUnknown == Str(0)
StrUSD == Str(1)
StrBulkCarrier == Str(2)

required ==
    <<"price", "downPaymentPercent", "loanTermYears", "interestRatePercent",
      "dailyCharterRate", "opexPerDay", "utilizationPercent">>

RawFields ==
    {"vesselType", "age", "price", "dwt", "currency", "downPaymentPercent",
     "loanTermYears", "interestRatePercent", "dailyCharterRate", "opexPerDay",
     "utilizationPercent", "scrapValue"}

IsAbsent(v) == v = Undefined \/ v = Null

\* Index in required of the first field that is undefined or null, 0 if none:
\* the for loop of validateParameters.
RECURSIVE FirstMissingFrom(_, _)
FirstMissingFrom(params, i) ==
    IF i > Len(required) THEN 0
    ELSE IF IsAbsent(params[required[i]]) THEN i
    ELSE FirstMissingFrom(params, i + 1)

\* As FirstMissing, testing params[field] === undefined only.
FirstMissingSkipsNull(params) ==
    LET idx == {i \in 1..Len(required) : params[required[i]] = Undefined}
    IN  IF idx = {} THEN 0 ELSE CHOOSE i \in idx : \A j \in idx : i <= j

FirstMissing(params) == FirstMissingFrom(params, 1)

\* The object validateParameters returns when no field is missing.
NormalizedFields(params) ==
    [vesselType          |-> OrElse(params.vesselType, StrUnknown),
     age                 |-> OrElse(params.age, N(0)),
     price               |-> parseFloat(params.price),
     dwt                 |-> OrElse(params.dwt, N(0)),
     currency            |-> OrElse(params.currency, StrUSD),
     downPaymentPercent  |-> Div(parseFloat(params.downPaymentPercent), N(100)),
     loanTermYears       |-> parseInt(params.loanTermYears),
     interestRatePercent |-> Div(parseFloat(params.interestRatePercent), N(100)),
     dailyCharterRate    |-> parseFloat(params.dailyCharterRate),
     opexPerDay          |-> parseFloat(params.opexPerDay),
     utilizationPercent  |-> Div(parseFloat(params.utilizationPercent), N(100)),
     scrapValue          |-> OrElse(parseFloat(params.scrapValue),
                                    Mul(ToNumber(params.price), Norm(15, 100)))]

\* As Normalized, with dwt: params.dwt (no default).
NormalizedWithoutDwtDefault(params) == [NormalizedFields(params) EXCEPT !.dwt = params.dwt]

\* As Normalized, with utilizationPercent left a whole-number percentage.
NormalizedWithRawUtilization(params) ==
    [NormalizedFields(params) EXCEPT
        !.utilizationPercent = parseFloat(params.utilizationPercent)]

Normalized(params) == NormalizedFields(params)

NormFields ==
    {"vesselType", "age", "price", "dwt", "currency", "downPaymentPercent",
     "loanTermYears", "interestRatePercent", "dailyCharterRate", "opexPerDay",
     "utilizationPercent", "scrapValue"}

\* this.parameters before the constructor has assigned it.
NoParameters == [f \in NormFields |-> Undefined]

\* this.analysisHorizon = this.parameters.loanTermYears || 10
\* As HorizonOf, always the default.
HorizonDefaultOnly(p) == N(10)

HorizonOf(p) == OrElse(p.loanTermYears, N(10))

(***************************************************************************)
(* Amortization Engine                                                     *)
(***************************************************************************)
\* calculateAnnualLoanPayment(loanAmount, termYears), reading
\* this.parameters.interestRatePercent from p.
\* As calculateAnnualLoanPayment, without the no-interest case.
AnnuityPaymentOnly(p, loanAmount, termYears) ==
    LET monthlyRate == Div(p.interestRatePercent, N(12))
        numPayments == Mul(termYears, N(12))
        growth      == IF IsFinite(numPayments)
                       THEN Pow(Add(N(1), monthlyRate), numPayments[1])
                       ELSE NaN
    IN  Mul(Div(Mul(loanAmount, Mul(monthlyRate, growth)), Sub(growth, N(1))), N(12))

calculateAnnualLoanPayment(p, loanAmount, termYears) ==
    LET monthlyRate == Div(p.interestRatePercent, N(12))
        numPayments == Mul(termYears, N(12))
        growth      == IF IsFinite(numPayments)
                       THEN Pow(Add(N(1), monthlyRate), numPayments[1])
                       ELSE NaN
        monthlyPayment ==
            Div(Mul(loanAmount, Mul(monthlyRate, growth)), Sub(growth, N(1)))
    IN  IF Eq(monthlyRate, N(0))
        THEN Div(loanAmount, termYears)
        ELSE Mul(monthlyPayment, N(12))

\* The inner loop of calculateAmortizationSchedule: months month..12 of one
\* year, while the remaining balance is positive. acc carries annualInterest,
\* annualPrincipal and remainingBalance.
\* The loop condition month <= 12 && remainingBalance > 0.
MonthRunsBeforeTwelve(month, remainingBalance) ==
    month < 12 /\ Gt(remainingBalance, N(0))

MonthRuns(month, remainingBalance) ==
    month <= 12 /\ Gt(remainingBalance, N(0))

RECURSIVE MonthLoop(_, _, _, _)
MonthLoop(month, acc, monthlyRate, monthlyPayment) ==
    IF MonthRuns(month, acc.remainingBalance)
    THEN LET interestPayment  == Mul(acc.remainingBalance, monthlyRate)
             principalPayment == Min(Sub(monthlyPayment, interestPayment),
                                     acc.remainingBalance)
         IN  MonthLoop(month + 1,
                       [annualInterest   |-> Add(acc.annualInterest, interestPayment),
                        annualPrincipal  |-> Add(acc.annualPrincipal, principalPayment),
                        remainingBalance |-> Sub(acc.remainingBalance, principalPayment)],
                       monthlyRate, monthlyPayment)
    ELSE acc

\* As YearRuns, stopping one year early.
YearRunsBeforeTerm(year, loanTermYears) == Lt(N(year), loanTermYears)

\* The loop condition year <= loanTermYears.
YearRuns(year, loanTermYears) == Le(N(year), loanTermYears)

\* The outer loop of calculateAmortizationSchedule from year on.
RECURSIVE YearLoop(_, _, _, _, _, _)
YearLoop(year, schedule, remainingBalance, loanTermYears, monthlyRate, monthlyPayment) ==
    IF YearRuns(year, loanTermYears)
    THEN LET acc == MonthLoop(1, [annualInterest   |-> N(0),
                                  annualPrincipal  |-> N(0),
                                  remainingBalance |-> remainingBalance],
                              monthlyRate, monthlyPayment)
             entry == [year            |-> year,
                       startingBalance |-> remainingBalance,
                       payment         |-> Add(acc.annualInterest, acc.annualPrincipal),
                       principal       |-> acc.annualPrincipal,
                       interest        |-> acc.annualInterest,
                       endingBalance   |-> acc.remainingBalance]
         IN  YearLoop(year + 1, Append(schedule, entry), acc.remainingBalance,
                      loanTermYears, monthlyRate, monthlyPayment)
    ELSE schedule

\* As calculateAmortizationSchedule, paying the annual payment every month.
AmortizationPayingAnnualPaymentMonthly(p) ==
    LET loanAmount     == Mul(p.price, Sub(N(1), p.downPaymentPercent))
        monthlyRate    == Div(p.interestRatePercent, N(12))
        monthlyPayment == calculateAnnualLoanPayment(p, loanAmount, p.loanTermYears)
    IN  IF Eq(loanAmount, N(0)) THEN <<>>
        ELSE YearLoop(1, <<>>, loanAmount, p.loanTermYears, monthlyRate, monthlyPayment)

calculateAmortizationSchedule(p) ==
    LET loanAmount     == Mul(p.price, Sub(N(1), p.downPaymentPercent))
        monthlyRate    == Div(p.interestRatePercent, N(12))
        monthlyPayment ==
            Div(calculateAnnualLoanPayment(p, loanAmount, p.loanTermYears), N(12))
    IN  IF Eq(loanAmount, N(0)) THEN <<>>
        ELSE YearLoop(1, <<>>, loanAmount, p.loanTermYears, monthlyRate, monthlyPayment)

(***************************************************************************)
(* Cash Flow Projector                                                     *)
(***************************************************************************)
\* As YearZero, with the outflow entered as a positive amount.
YearZeroUnsigned(initialInvestment) ==
    [year               |-> 0,
     revenue            |-> N(0),
     opex               |-> N(0),
     ebitda             |-> Undefined,
     debtPayment        |-> N(0),
     terminalValue      |-> Undefined,
     netCashFlow        |-> initialInvestment,
     cumulativeCashFlow |-> initialInvestment]

\* The entry calculateCashFlows pushes for year 0 (it has no ebitda and no
\* terminalValue property).
YearZero(initialInvestment) ==
    [year               |-> 0,
     revenue            |-> N(0),
     opex               |-> N(0),
     ebitda             |-> Undefined,
     debtPayment        |-> N(0),
     terminalValue      |-> Undefined,
     netCashFlow        |-> Neg(initialInvestment),
     cumulativeCashFlow |-> Neg(initialInvestment)]

\* As TerminalValueIn, adding the scrap value in every year.
TerminalValueEveryYear(year, horizon, scrapValue) == scrapValue

\* const terminalValue = year === this.analysisHorizon ? scrapValue : 0
TerminalValueIn(year, horizon, scrapValue) ==
    IF Eq(N(year), horizon) THEN scrapValue ELSE N(0)

\* As Accumulate, restarting the running total every year.
AccumulateFromZero(cumulativeCashFlow, netCashFlow) == netCashFlow

\* cumulativeCashFlow += netCashFlow
Accumulate(cumulativeCashFlow, netCashFlow) == Add(cumulativeCashFlow, netCashFlow)

\* The operating-years loop of calculateCashFlows from year on.
RECURSIVE OperatingYears(_, _, _, _, _, _)
OperatingYears(year, flows, cumulativeCashFlow, p, horizon, annualLoanPayment) ==
    IF Le(N(year), horizon)
    THEN LET annualRevenue == Mul(Mul(p.dailyCharterRate, N(365)), p.utilizationPercent)
             annualOpex    == Mul(p.opexPerDay, N(365))
             ebitda        == Sub(annualRevenue, annualOpex)
             debtPayment   == IF Le(N(year), p.loanTermYears)
                              THEN annualLoanPayment ELSE N(0)
             terminalValue == TerminalValueIn(year, horizon, p.scrapValue)
             netCashFlow   == Add(Sub(ebitda, debtPayment), terminalValue)
             cumulative    == Accumulate(cumulativeCashFlow, netCashFlow)
         IN  OperatingYears(year + 1,
                            Append(flows,
                                   [year               |-> year,
                                    revenue            |-> annualRevenue,
                                    opex               |-> annualOpex,
                                    ebitda             |-> ebitda,
                                    debtPayment        |-> debtPayment,
                                    terminalValue      |-> terminalValue,
                                    netCashFlow        |-> netCashFlow,
                                    cumulativeCashFlow |-> cumulative]),
                            cumulative, p, horizon, annualLoanPayment)
    ELSE flows

calculateCashFlows(p, horizon) ==
    LET initialInvestment == Mul(p.price, p.downPaymentPercent)
        loanAmount        == Mul(p.price, Sub(N(1), p.downPaymentPercent))
        annualLoanPayment == calculateAnnualLoanPayment(p, loanAmount, p.loanTermYears)
    IN  OperatingYears(1, <<YearZero(initialInvestment)>>, Neg(initialInvestment),
                       p, horizon, annualLoanPayment)

(***************************************************************************)
(* Valuation Engine: payback period                                        *)
(***************************************************************************)
\* As Recovered, without the test i > 0.
RecoveredAtAnyIndex(cumulativeCashFlow, i) == Ge(cumulativeCashFlow, N(0))

\* cumulativeCashFlow >= 0 && i > 0
Recovered(cumulativeCashFlow, i) == Ge(cumulativeCashFlow, N(0)) /\ i > 0

\* As Interpolate, counting from year i instead of year i - 1.
InterpolateFromThisYear(i, cumulativeCashFlow, netCashFlow) ==
    LET previousCumulative == Sub(cumulativeCashFlow, netCashFlow)
        fraction           == Div(Neg(previousCumulative), netCashFlow)
    IN  Add(N(i), fraction)

\* The linear interpolation calculatePaybackPeriod returns.
Interpolate(i, cumulativeCashFlow, netCashFlow) ==
    LET previousCumulative == Sub(cumulativeCashFlow, netCashFlow)
        fraction           == Div(Neg(previousCumulative), netCashFlow)
    IN  Add(N(i - 1), fraction)

\* The loop of calculatePaybackPeriod from JavaScript index i on (cashFlows[i]
\* is flows[i + 1]); null when the loop ends without returning.
RECURSIVE PaybackFrom(_, _, _)
PaybackFrom(flows, i, cumulativeCashFlow) ==
    IF i >= Len(flows) THEN Null
    ELSE LET cumulative == Add(cumulativeCashFlow, flows[i + 1].netCashFlow)
         IN  IF Recovered(cumulative, i)
             THEN Interpolate(i, cumulative, flows[i + 1].netCashFlow)
             ELSE PaybackFrom(flows, i + 1, cumulative)

calculatePaybackPeriod(flows) == PaybackFrom(flows, 0, N(0))

(***************************************************************************)
(* Valuation Engine: NPV and IRR                                           *)
(*                                                                         *)
(* Discounting raises (1 + rate) to the year index and Newton-Raphson      *)
(* iterates on the result, so the valuation is modelled in floating point: *)
(* a value <<t, m, e>> is m * 10^e with a four-digit mantissa              *)
(* (1000 <= |m| <= 9999, or m = 0) when t = 0, +Infinity or -Infinity when *)
(* t = 1 or -1, and NaN when t = 2. Every operation rounds toward zero, as *)
(* a double operation rounds to 53 bits.                                   *)
(***************************************************************************)
TruncDiv(a, b) == Sgn(a) * Sgn(b) * (Abs(a) \div Abs(b))

RECURSIVE DNorm(_, _)
DNorm(m, e) ==
    IF m = 0 THEN <<0, 0, 0>>
    ELSE IF Abs(m) >= 10000 THEN DNorm(TruncDiv(m, 10), e + 1)
    ELSE IF Abs(m) < 1000 THEN DNorm(m * 10, e - 1)
    ELSE IF e > 300 THEN <<Sgn(m), 0, 0>>
    ELSE IF e < -300 THEN <<0, 0, 0>>
    ELSE <<0, m, e>>

DNaN == <<2, 0, 0>>
DInf(sign) == <<sign, 0, 0>>
DIsNaN(x) == x[1] = 2
DIsInf(x) == x[1] = 1 \/ x[1] = -1
DSign(x) == IF x[1] = 0 THEN Sgn(x[2]) ELSE IF x[1] = 2 THEN 0 ELSE x[1]

\* The digits of rem/d appended to the mantissa m until it has four digits.
RECURSIVE DDigits(_, _, _, _)
DDigits(m, rem, d, e) ==
    IF m >= 1000 \/ (m = 0 /\ rem = 0) THEN DNorm(m, e)
    ELSE DDigits(m * 10 + ((rem * 10) \div d), (rem * 10) % d, d, e - 1)

\* The floating-point value of a number.
DFromNum(x) ==
    IF IsNaN(x) \/ ~IsNumber(x) THEN DNaN
    ELSE IF IsInf(x) THEN DInf(x[1])
    ELSE LET r == DDigits(Abs(x[1]) \div x[2], Abs(x[1]) % x[2], x[2], 0)
         IN  <<0, Sgn(x[1]) * r[2], r[3]>>

DInt(i) == DNorm(i, 0)

DNeg(x) == IF DIsNaN(x) THEN x ELSE <<-x[1], -x[2], x[3]>>

DAbs(x) == IF DIsNaN(x) THEN x ELSE <<Abs(x[1]), Abs(x[2]), x[3]>>

Pow10(k) == CASE k = 0 -> 1 [] k = 1 -> 10 [] k = 2 -> 100 [] k = 3 -> 1000 [] OTHER -> 10000

DAdd(x, y) ==
    IF DIsNaN(x) \/ DIsNaN(y) THEN DNaN
    ELSE IF DIsInf(x) THEN (IF DIsInf(y) /\ y # x THEN DNaN ELSE x)
    ELSE IF DIsInf(y) THEN y
    ELSE IF x[2] = 0 THEN y
    ELSE IF y[2] = 0 THEN x
    ELSE LET hi == IF x[3] >= y[3] THEN x ELSE y
             lo == IF x[3] >= y[3] THEN y ELSE x
             k  == hi[3] - lo[3]
         IN  IF k > 4 THEN hi ELSE DNorm(hi[2] * Pow10(k) + lo[2], lo[3])

DSub(x, y) == DAdd(x, DNeg(y))

DMul(x, y) ==
    IF DIsNaN(x) \/ DIsNaN(y) THEN DNaN
    ELSE IF DIsInf(x) \/ DIsInf(y)
         THEN (IF DSign(x) = 0 \/ DSign(y) = 0 THEN DNaN ELSE DInf(DSign(x) * DSign(y)))
    ELSE DNorm(x[2] * y[2], x[3] + y[3])

DDiv(x, y) ==
    IF DIsNaN(x) \/ DIsNaN(y) THEN DNaN
    ELSE IF DIsInf(x) THEN (IF DIsInf(y) THEN DNaN
                            ELSE DInf(x[1] * (IF DSign(y) < 0 THEN -1 ELSE 1)))
    ELSE IF DIsInf(y) THEN DInt(0)
    ELSE IF y[2] = 0 THEN (IF x[2] = 0 THEN DNaN ELSE DInf(Sgn(x[2])))
    ELSE DNorm(TruncDiv(x[2] * 100000, y[2]), x[3] - y[3] - 5)

\* x < y; false when either is NaN.
DLt(x, y) ==
    IF DIsNaN(x) \/ DIsNaN(y) THEN FALSE
    ELSE IF x = y THEN FALSE
    ELSE DSign(DSub(x, y)) < 0

\* Math.pow(x, k) for an integer k >= 0.
RECURSIVE DPow(_, _)
DPow(x, k) == IF k = 0 THEN DInt(1) ELSE DMul(x, DPow(x, k - 1))

\* this.discountRate = 0.10, the tolerance 0.0001 and the initial guess 0.1 of
\* calculateIRR, the clamp bounds -0.99 and 10.
DiscountRate == Norm(10, 100)
IrrTolerance == DNorm(1, -4)
IrrInitialGuess == DNorm(1, -1)
IrrLowerBound == DNorm(-99, -2)
IrrUpperBound == DInt(10)
maxIterations == 100

\* calculateNPV: the reduce over cashFlows from JavaScript index on. factor is
\* Math.pow(1 + rate, index), carried from one index to the next
\* (DPow(x, k + 1) = DMul(x, DPow(x, k))).
RECURSIVE NpvFrom(_, _, _, _, _)
NpvFrom(flows, index, acc, rate, factor) ==
    IF index >= Len(flows) THEN acc
    ELSE NpvFrom(flows, index + 1,
                 DAdd(acc, DDiv(DFromNum(flows[index + 1].netCashFlow), factor)),
                 rate, DMul(DAdd(DInt(1), rate), factor))

\* calculateNPV with the first entry discounted by one year.
calculateNPVFromYearOne(flows, rate) ==
    NpvFrom(flows, 0, DInt(0), DFromNum(rate), DPow(DAdd(DInt(1), DFromNum(rate)), 1))

calculateNPV(flows, rate) ==
    NpvFrom(flows, 0, DInt(0), DFromNum(rate), DPow(DAdd(DInt(1), DFromNum(rate)), 0))

\* The forEach of calculateIRR: npv and dnpv at the rate irr, from index year
\* on. net is the netCashFlow column of cashFlows; factor is
\* Math.pow(1 + irr, year), carried from one year to the next.
RECURSIVE IrrSums(_, _, _, _, _)
IrrSums(net, year, irr, acc, factor) ==
    IF year >= Len(net) THEN acc
    ELSE LET cf   == net[year + 1]
             next == DMul(DAdd(DInt(1), irr), factor)
         IN  IrrSums(net, year + 1, irr,
                     [npv  |-> DAdd(acc.npv, DDiv(cf, factor)),
                      dnpv |-> DSub(acc.dnpv, DDiv(DMul(DInt(year), cf), next))],
                     next)

\* irr - npv / dnpv without the bounds checking.
IrrUpdateUnclamped(irr, sums) == DSub(irr, DDiv(sums.npv, sums.dnpv))

\* irr - npv / dnpv with the bounds checking that follows it.
IrrUpdate(irr, sums) ==
    LET next == DSub(irr, DDiv(sums.npv, sums.dnpv))
    IN  IF DLt(next, IrrLowerBound) THEN IrrLowerBound
        ELSE IF DLt(IrrUpperBound, next) THEN IrrUpperBound
        ELSE next

\* One iteration of the for loop of calculateIRR. st carries the counter i,
\* the estimate irr, the estimate prev of the iteration before (NaN in the
\* first) and whether the loop has ended. The loop is deterministic in irr: a
\* NaN estimate stays NaN (no comparison with it is true), and an update that
\* returns to irr, or to prev, repeats from there on, so the value after the
\* remaining iterations is known without running them.
IrrIteration(net, st) ==
    IF st.done THEN st
    ELSE IF st.i >= maxIterations THEN [st EXCEPT !.done = TRUE]
    ELSE LET sums == IrrSums(net, 0, st.irr, [npv |-> DInt(0), dnpv |-> DInt(0)],
                             DPow(DAdd(DInt(1), st.irr), 0))
             next == IrrUpdate(st.irr, sums)
         IN  IF DLt(DAbs(sums.npv), IrrTolerance) THEN [st EXCEPT !.done = TRUE]
             ELSE IF sums.dnpv = DInt(0) THEN [st EXCEPT !.done = TRUE]
             ELSE IF DIsNaN(next) THEN [st EXCEPT !.irr = next, !.done = TRUE]
             ELSE IF next = st.irr THEN [st EXCEPT !.done = TRUE]
             ELSE IF next = st.prev
             THEN [st EXCEPT !.irr = IF (maxIterations - (st.i + 1)) % 2 = 0
                                     THEN next ELSE st.irr,
                             !.done = TRUE]
             ELSE [i |-> st.i + 1, irr |-> next, prev |-> st.irr, done |-> FALSE]

\* k iterations of the loop, the first half of them and then the rest.
RECURSIVE IrrLoop(_, _, _)
IrrLoop(net, st, k) ==
    IF st.done \/ k <= 1 THEN IrrIteration(net, st)
    ELSE IrrLoop(net, IrrLoop(net, st, k \div 2), k - (k \div 2))

calculateIRR(flows) ==
    IrrLoop([t \in 1..Len(flows) |-> DFromNum(flows[t].netCashFlow)],
            [i |-> 0, irr |-> IrrInitialGuess, prev |-> DNaN, done |-> FALSE],
            maxIterations + 1).irr

(***************************************************************************)
(* Ratio and Summary Builder                                               *)
(***************************************************************************)
\* reduce((sum, cf) => sum + cf[field], 0) over cashFlows.slice(1): the
\* entries flows[i], flows[i + 1], ... added to acc.
RECURSIVE SumField(_, _, _, _)
SumField(flows, field, i, acc) ==
    IF i > Len(flows) THEN acc
    ELSE SumField(flows, field, i + 1, Add(acc, flows[i][field]))

\* The ratio with no test of its denominator.
Unguarded(denominator, quotient, otherwise) == quotient

\* denominator > 0 ? quotient : otherwise.
Guarded(denominator, quotient, otherwise) ==
    IF Gt(denominator, N(0)) THEN quotient ELSE otherwise

calculateKeyRatios(flows, p) ==
    LET count                == N(Len(flows) - 1)
        totalRevenue         == SumField(flows, "revenue", 2, N(0))
        totalOpex            == SumField(flows, "opex", 2, N(0))
        totalDebtPayments    == SumField(flows, "debtPayment", 2, N(0))
        avgAnnualEbitda      == Div(Sub(totalRevenue, totalOpex), count)
        avgAnnualDebtService == Div(totalDebtPayments, p.loanTermYears)
        equity               == Mul(p.price, p.downPaymentPercent)
    IN  [totalRevenue             |-> totalRevenue,
         totalOpex                |-> totalOpex,
         avgAnnualEbitda          |-> avgAnnualEbitda,
         avgAnnualDebtService     |-> avgAnnualDebtService,
         debtServiceCoverageRatio |-> Guarded(avgAnnualDebtService,
                                              Div(avgAnnualEbitda, avgAnnualDebtService),
                                              Null),
         operatingMargin          |-> Guarded(totalRevenue,
                                              Div(Sub(totalRevenue, totalOpex), totalRevenue),
                                              N(0)),
         returnOnInvestment       |-> Guarded(equity, Div(avgAnnualEbitda, equity), N(0))]

\* x.toFixed(1) and x.toFixed(2) as the number the digits denote; NaN and the
\* infinities print as themselves.
toFixed1(x) == IF IsFinite(x) THEN Norm(Round(Mul(x, N(10))), 10) ELSE x
toFixed2(x) == IF IsFinite(x) THEN Norm(Round(Mul(x, N(100))), 100) ELSE x

\* dwt.toLocaleString() throws a TypeError when dwt is undefined or null;
\* every other value has the method.
SummaryThrows(p) == IsAbsent(p.dwt)

\* generateSummary: the template strings are kept as the tuples of the values
\* they interpolate.
generateSummary(p) ==
    [vesselDescription    |-> <<p.age, p.vesselType, p.dwt>>,
     purchasePrice        |-> p.price,
     financingTerms       |-> <<p.loanTermYears,
                                toFixed2(Mul(p.interestRatePercent, N(100)))>>,
     operatingAssumptions |->
         [dailyRate           |-> p.dailyCharterRate,
          utilization         |-> toFixed1(Mul(p.utilizationPercent, N(100))),
          annualOperatingDays |->
              LET days == Mul(N(365), p.utilizationPercent)
              IN  IF IsFinite(days) THEN N(Round(days)) ELSE days]]

(***************************************************************************)
(* Inputs                                                                  *)
(***************************************************************************)
\* Longest loan term, in years, among the inputs.
MaxTerm == 2

PriceValues == {N(0), N(100)}
DownPaymentValues == {N(0), N(50), N(100), N(150)}
TermValues == {N(t) : t \in -1..MaxTerm} \cup {Norm(3, 2)}
RateValues == {N(-1200), N(0), N(1200)}
CharterValues == {N(0), N(1)}
OpexValues == {N(0), N(1)}
UtilizationValues == {N(50), N(100)}
ScrapValues == {Undefined, N(0), N(100)}

\* The optional descriptive fields, all absent or all supplied.
Descriptions ==
    {[vesselType |-> Undefined, age |-> Undefined, dwt |-> Undefined,
      currency |-> Undefined],
     [vesselType |-> StrBulkCarrier, age |-> N(10), dwt |-> N(82000),
      currency |-> StrUSD]}

ParamsOf(d, price, down, term, rate, charter, opex, util, scrap) ==
    [vesselType          |-> d.vesselType,
     age                 |-> d.age,
     price               |-> price,
     dwt                 |-> d.dwt,
     currency            |-> d.currency,
     downPaymentPercent  |-> down,
     loanTermYears       |-> term,
     interestRatePercent |-> rate,
     dailyCharterRate    |-> charter,
     opexPerDay          |-> opex,
     utilizationPercent  |-> util,
     scrapValue          |-> scrap]

\* Parameter maps with every required field present. Monthly compounding at
\* 1200% a year doubles the balance every month, which stays within TLC's
\* integers for one year of payments only.
CompleteInputs ==
    {ParamsOf(d, price, down, term, rate, charter, opex, util, scrap) :
        d \in Descriptions, price \in PriceValues, down \in DownPaymentValues,
        term \in TermValues, rate \in RateValues,
        charter \in CharterValues, opex \in OpexValues,
        util \in UtilizationValues, scrap \in ScrapValues}

ExactInputs == {q \in CompleteInputs :
                  q.interestRatePercent = N(1200) => Lt(q.loanTermYears, N(2))}

\* The test suite's parameter map scaled down, with any of the required fields
\* left out (undefined) or null.
BaseParams ==
    ParamsOf([vesselType |-> StrBulkCarrier, age |-> N(10), dwt |-> N(82000),
              currency |-> StrUSD],
             N(100), N(50), N(1), N(0), N(1), N(0), N(100), N(100))

RequiredSet == {required[i] : i \in 1..Len(required)}

IncompleteInputs ==
    {[f \in RawFields |-> IF f \in RequiredSet /\ h[f] # N(0) THEN h[f] ELSE BaseParams[f]] :
        h \in [RequiredSet -> {N(0), Undefined, Null}]}

Inputs == ExactInputs \cup IncompleteInputs

(***************************************************************************)
(* One calculation request                                                 *)
(***************************************************************************)
VARIABLES
    pc,                   \* where the request is
    params,               \* the raw parameter map handed to the constructor
    parameters,           \* this.parameters
    discountRate,         \* this.discountRate
    analysisHorizon,      \* this.analysisHorizon
    cashFlows,            \* const cashFlows of calculateFinancialMetrics
    amortizationSchedule, \* const amortizationSchedule
    npv, irr, paybackPeriod, keyRatios, summary,  \* the properties of results
    results,              \* <<>> until calculateFinancialMetrics returns <<results>>
    error,                \* <<>> or the message of the Error thrown
    other,                \* a second model instance, <<>> when there is none
    returned,             \* the Results of earlier calculateFinancialMetrics calls
    request,              \* <<>> or req of POST /api/calculate, without its parameters
    firestoreService,     \* whether the server has a FirestoreService
    response,             \* <<>> or the HTTP response of POST /api/calculate
    analyses,             \* the documents of the Firestore collection 'analyses'
    calls,                \* the FirestoreService calls in flight
    reply,                \* <<>> or the outcome of the last FirestoreService call
    iteration,            \* let i of the loop of calculateIRR
    invoked,              \* the endpoint handlers the server has invoked
    unsanitized,          \* the argument of sanitizeData
    sanitized,            \* <<>> or the value sanitizeData returned
    currentParameters,    \* the currentParameters given to GeminiAIService
    parsed,               \* parsed.parameters: the JSON object of the AI response
    merged,               \* <<>> or what extractParameters / modifyScenario gave
    inputMessage,         \* ChatbotPanel: the text in the input
    isTyping,             \* ChatbotPanel: a message is being processed
    currentUser,          \* ChatbotPanel: whether auth.currentUser is set
    sends,                \* ChatbotPanel: the handleSendMessage calls under way
    onMessageCalls        \* ChatbotPanel: the calls of onMessage made so far

vars == <<pc, params, parameters, discountRate, analysisHorizon, cashFlows,
          amortizationSchedule, npv, irr, paybackPeriod, keyRatios, summary,
          results, error, other, returned, request, firestoreService, response,
          analyses, calls, reply, iteration, invoked, unsanitized, sanitized,
          currentParameters, parsed, merged, inputMessage, isTyping, currentUser,
          sends, onMessageCalls>>

\* What lies outside the one model instance: nothing of it is touched by the
\* constructor or by calculateFinancialMetrics.
\* The server around the model: the request, the database service, the response.
server == <<request, firestoreService, response, analyses, calls, reply>>

\* The AI service, the data sanitizer, the request gate and the chat panel, and
\* the loop index of calculateIRR when the loop is followed step by step.
elsewhere == <<iteration, invoked, unsanitized, sanitized, currentParameters, parsed,
               merged, inputMessage, isTyping, currentUser, sends, onMessageCalls>>

outside == <<other, returned, server, elsewhere>>

NothingElsewhere ==
    /\ iteration = 0
    /\ invoked = {}
    /\ unsanitized = <<>>
    /\ sanitized = <<>>
    /\ currentParameters = <<>>
    /\ parsed = <<>>
    /\ merged = <<>>
    /\ inputMessage = ""
    /\ isTyping = FALSE
    /\ currentUser = FALSE
    /\ sends = <<>>
    /\ onMessageCalls = <<>>

NothingOutside ==
    /\ other = <<>>
    /\ returned = <<>>
    /\ request = <<>>
    /\ firestoreService = FALSE
    /\ response = <<>>
    /\ analyses = <<>>
    /\ calls = <<>>
    /\ reply = <<>>
    /\ NothingElsewhere

locals == <<cashFlows, amortizationSchedule, npv, irr, paybackPeriod, keyRatios,
            summary>>

Init ==
    /\ pc = "new"
    /\ params \in Inputs
    /\ parameters = NoParameters
    /\ discountRate = Undefined
    /\ analysisHorizon = Undefined
    /\ cashFlows = <<>>
    /\ amortizationSchedule = <<>>
    /\ npv = DNaN
    /\ irr = DNaN
    /\ paybackPeriod = Undefined
    /\ keyRatios = <<>>
    /\ summary = <<>>
    /\ results = <<>>
    /\ error = <<>>
    /\ NothingOutside

\* new VesselFinancialModel(params): validateParameters throws on the first
\* missing field, otherwise the three fields of the instance are assigned.
Construct ==
    /\ pc = "new"
    /\ IF FirstMissing(params) # 0
       THEN /\ pc' = "rejected"
            /\ error' = <<"Missing required parameter: ", required[FirstMissing(params)]>>
            /\ UNCHANGED <<parameters, discountRate, analysisHorizon>>
       ELSE /\ pc' = "constructed"
            /\ parameters' = Normalized(params)
            /\ discountRate' = DiscountRate
            /\ analysisHorizon' = HorizonOf(Normalized(params))
            /\ error' = <<>>
    /\ UNCHANGED <<params, locals, results>>
    /\ UNCHANGED outside

\* As CalcCashFlows, pushing onto the array an earlier call has filled instead
\* of a new one.
CalcCashFlowsOntoOldArray ==
    /\ pc = "constructed"
    /\ cashFlows' = cashFlows \o calculateCashFlows(parameters, analysisHorizon)
    /\ pc' = "amortization"
    /\ UNCHANGED <<params, parameters, discountRate, analysisHorizon,
                   amortizationSchedule, npv, irr, paybackPeriod, keyRatios,
                   summary, results, error>>
    /\ UNCHANGED outside

\* calculateFinancialMetrics, statement by statement.
CalcCashFlows ==
    /\ pc = "constructed"
    /\ cashFlows' = calculateCashFlows(parameters, analysisHorizon)
    /\ pc' = "amortization"
    /\ UNCHANGED <<params, parameters, discountRate, analysisHorizon,
                   amortizationSchedule, npv, irr, paybackPeriod, keyRatios,
                   summary, results, error>>
    /\ UNCHANGED outside

CalcAmortization ==
    /\ pc = "amortization"
    /\ amortizationSchedule' = calculateAmortizationSchedule(parameters)
    /\ pc' = "npv"
    /\ UNCHANGED <<params, parameters, discountRate, analysisHorizon, cashFlows,
                   npv, irr, paybackPeriod, keyRatios, summary, results, error>>
    /\ UNCHANGED outside

CalcNPV ==
    /\ pc = "npv"
    /\ npv' = calculateNPV(cashFlows, discountRate)
    /\ pc' = "irr"
    /\ UNCHANGED <<params, parameters, discountRate, analysisHorizon, cashFlows,
                   amortizationSchedule, irr, paybackPeriod, keyRatios, summary,
                   results, error>>
    /\ UNCHANGED outside

CalcIRR ==
    /\ pc = "irr"
    /\ irr' = calculateIRR(cashFlows)
    /\ pc' = "payback"
    /\ UNCHANGED <<params, parameters, discountRate, analysisHorizon, cashFlows,
                   amortizationSchedule, npv, paybackPeriod, keyRatios, summary,
                   results, error>>
    /\ UNCHANGED outside

CalcPayback ==
    /\ pc = "payback"
    /\ paybackPeriod' = calculatePaybackPeriod(cashFlows)
    /\ pc' = "ratios"
    /\ UNCHANGED <<params, parameters, discountRate, analysisHorizon, cashFlows,
                   amortizationSchedule, npv, irr, keyRatios, summary, results,
                   error>>
    /\ UNCHANGED outside

CalcKeyRatios ==
    /\ pc = "ratios"
    /\ keyRatios' = <<calculateKeyRatios(cashFlows, parameters)>>
    /\ pc' = "summary"
    /\ UNCHANGED <<params, parameters, discountRate, analysisHorizon, cashFlows,
                   amortizationSchedule, npv, irr, paybackPeriod, summary,
                   results, error>>
    /\ UNCHANGED outside

\* generateSummary is the last property evaluated; a TypeError in it is caught
\* and rethrown as 'Financial calculation error: ...'. Otherwise the results
\* object is complete and returned.
Summarize ==
    /\ pc = "summary"
    /\ IF SummaryThrows(parameters)
       THEN /\ pc' = "failed"
            /\ error' = <<"Financial calculation error: ", "TypeError">>
            /\ UNCHANGED <<summary, results>>
       ELSE /\ pc' = "done"
            /\ summary' = <<generateSummary(parameters)>>
            /\ results' = <<[npv                  |-> npv,
                             irr                  |-> irr,
                             paybackPeriod        |-> paybackPeriod,
                             cashFlows            |-> cashFlows,
                             amortizationSchedule |-> amortizationSchedule,
                             keyRatios            |-> keyRatios[1],
                             summary              |-> generateSummary(parameters)]>>
            /\ error' = <<>>
    /\ UNCHANGED <<params, parameters, discountRate, analysisHorizon, cashFlows,
                   amortizationSchedule, npv, irr, paybackPeriod, keyRatios>>
    /\ UNCHANGED outside

Next ==
    \/ Construct
    \/ CalcCashFlows
    \/ CalcAmortization
    \/ CalcNPV
    \/ CalcIRR
    \/ CalcPayback
    \/ CalcKeyRatios
    \/ Summarize

Spec == Init /\ [][Next]_vars

(***************************************************************************)
(* Properties                                                              *)
(***************************************************************************)
\* The raw inputs as the numbers the specification speaks of.
RawPrice == params.price
RawDownFraction == Div(params.downPaymentPercent, N(100))
RawUtilFraction == Div(params.utilizationPercent, N(100))
RawTerm == parseInt(params.loanTermYears)

\* Inputs a caller can mean: a positive price, no negative amount, rate or
\* term, and a down payment and a utilization of at most 100%.
PlausibleInputs ==
    /\ Gt(params.price, N(0))
    /\ Ge(params.downPaymentPercent, N(0)) /\ Le(params.downPaymentPercent, N(100))
    /\ Ge(params.loanTermYears, N(0))
    /\ Ge(params.interestRatePercent, N(0))
    /\ Ge(params.dailyCharterRate, N(0))
    /\ Ge(params.opexPerDay, N(0))
    /\ Ge(params.utilizationPercent, N(0)) /\ Le(params.utilizationPercent, N(100))

\* No step of the calculation has left anything behind.
NothingComputed ==
    /\ parameters = NoParameters
    /\ discountRate = Undefined
    /\ analysisHorizon = Undefined
    /\ cashFlows = <<>>
    /\ amortizationSchedule = <<>>
    /\ npv = DNaN
    /\ irr = DNaN
    /\ paybackPeriod = Undefined
    /\ keyRatios = <<>>
    /\ summary = <<>>
    /\ results = <<>>

\* C1: once the constructor has run on a parameter map with a required field
\* undefined or null, the request is rejected with 'Missing required
\* parameter: <field>' naming the first absent field in the order of required,
\* and no step of the calculation has run and no result exists.
C1_MissingParameterRejected ==
    \A k \in 1..Len(required) :
        ( /\ pc # "new"
          /\ IsAbsent(params[required[k]])
          /\ \A j \in 1..(k - 1) : ~IsAbsent(params[required[j]]) )
        => /\ pc = "rejected"
           /\ error = <<"Missing required parameter: ", required[k]>>
           /\ NothingComputed

\* A rejected request whose first absent field is neither the first required
\* field nor the only absent one, and is null rather than undefined.
C1_Witness ==
    /\ pc = "rejected"
    /\ params.price # Undefined /\ params.price # Null
    /\ params.downPaymentPercent = Null
    /\ params.opexPerDay = Undefined
    /\ error = <<"Missing required parameter: ", "downPaymentPercent">>

AllPresent == \A k \in 1..Len(required) : ~IsAbsent(params[required[k]])

ResultKeys ==
    {"npv", "irr", "paybackPeriod", "cashFlows", "amortizationSchedule", "keyRatios",
     "summary"}

\* C2: a request whose seven required fields are all present never ends in an
\* error: after the constructor it is at one of the statements of
\* calculateFinancialMetrics or has returned, and the object returned has all
\* seven properties, each with a value (a number for npv and irr, a number or
\* null for paybackPeriod, a non-empty cashFlows array).
C2_ValidatedAlwaysCompletes ==
    AllPresent =>
        /\ pc \notin {"rejected", "failed"}
        /\ error = <<>>
        /\ pc \in {"new", "constructed", "amortization", "npv", "irr", "payback",
                   "ratios", "summary", "done"}
        /\ (pc = "done" =>
              /\ Len(results) = 1
              /\ DOMAIN results[1] = ResultKeys
              /\ Len(results[1].npv) = 3
              /\ Len(results[1].irr) = 3
              /\ results[1].paybackPeriod # Undefined
              /\ Len(results[1].cashFlows) >= 1
              /\ results[1].keyRatios = keyRatios[1]
              /\ results[1].summary = summary[1])

\* A returned result for a zero interest rate, a zero charter rate and a fully
\* paid-up purchase at once.
C2_Witness ==
    /\ pc = "done"
    /\ Len(results) = 1
    /\ params.interestRatePercent = N(0)
    /\ params.dailyCharterRate = N(0)
    /\ params.downPaymentPercent = N(100)
    /\ params.price = N(100)
    /\ params.dwt = Undefined

\* calculateCashFlows has run.
Projected == pc \notin {"new", "rejected", "constructed"}

\* The entry of cashFlows for year t (JavaScript index t).
Flow(t) == cashFlows[t + 1]

LastYear == Len(cashFlows) - 1

YearsInOrder == \A t \in 0..LastYear : Flow(t).year = t

C4_YearZeroIsEquityOutflow ==
    Projected =>
        /\ Eq(Flow(0).revenue, N(0))
        /\ Eq(Flow(0).opex, N(0))
        /\ Eq(Flow(0).debtPayment, N(0))
        /\ Eq(Flow(0).netCashFlow, Neg(Mul(RawPrice, RawDownFraction)))
        /\ Eq(Flow(0).cumulativeCashFlow, Flow(0).netCashFlow)
        /\ (pc = "done" => results[1].cashFlows[1] = Flow(0))

\* A returned result whose equity outflow is 50: half of a price of 100.
C4_Witness ==
    /\ pc = "done"
    /\ params.price = N(100)
    /\ params.downPaymentPercent = N(50)
    /\ results[1].cashFlows[1].netCashFlow = N(-50)

\* C5: in every operating year y of cashFlows, revenue =
\* dailyCharterRate * 365 * utilizationPercent / 100, opex = opexPerDay * 365,
\* ebitda = revenue - opex, terminalValue is the scrap value in the last year
\* and 0 in every other year, and netCashFlow = ebitda - debtPayment +
\* terminalValue.
C5_OperatingYearFormulas ==
    Projected =>
        \A y \in 1..LastYear :
            /\ Eq(Flow(y).revenue,
                  Mul(Mul(params.dailyCharterRate, N(365)), RawUtilFraction))
            /\ Eq(Flow(y).opex, Mul(params.opexPerDay, N(365)))
            /\ Eq(Flow(y).ebitda, Sub(Flow(y).revenue, Flow(y).opex))
            /\ Eq(Flow(y).terminalValue,
                  IF y = LastYear THEN parameters.scrapValue ELSE N(0))
            /\ Eq(Flow(y).netCashFlow,
                  Add(Sub(Flow(y).ebitda, Flow(y).debtPayment), Flow(y).terminalValue))

\* A two-year projection with revenue, opex, debt service and a scrap value
\* that enters the last year only.
C5_Witness ==
    /\ pc = "done"
    /\ LastYear = 2
    /\ Gt(Flow(1).revenue, N(0)) /\ Gt(Flow(1).opex, N(0))
    /\ Gt(Flow(1).debtPayment, N(0))
    /\ Flow(1).terminalValue = N(0)
    /\ Flow(2).terminalValue = N(100)

\* The sum of netCashFlow over the entries of years 0..t, added in that order.
RECURSIVE NetSum(_)
NetSum(t) == IF t = 0 THEN Flow(0).netCashFlow ELSE Add(NetSum(t - 1), Flow(t).netCashFlow)

\* C6: cumulativeCashFlow of every entry of cashFlows is the sum of netCashFlow
\* over the entries up to and including it.
C6_CumulativeIsRunningSum ==
    Projected => \A t \in 0..LastYear : Eq(Flow(t).cumulativeCashFlow, NetSum(t))

\* A projection of at least two operating years whose last cumulative value
\* differs from the last year's and the first two years' net cash flow.
C6_Witness ==
    /\ pc = "done"
    /\ LastYear >= 2
    /\ Flow(LastYear).cumulativeCashFlow # Flow(LastYear).netCashFlow
    /\ Flow(1).netCashFlow # N(0)
    /\ Flow(0).netCashFlow # N(0)

\* calculateAmortizationSchedule has run.
Amortized == pc \notin {"new", "rejected", "constructed", "amortization"}

\* The loan principal price * (1 - downPaymentPercent / 100).
LoanPrincipal == Mul(RawPrice, Sub(N(1), RawDownFraction))

RECURSIVE PrincipalRepaid(_)
PrincipalRepaid(k) ==
    IF k = 0 THEN N(0)
    ELSE Add(PrincipalRepaid(k - 1), amortizationSchedule[k].principal)

RepaidExactly ==
    /\ Eq(PrincipalRepaid(Len(amortizationSchedule)), LoanPrincipal)
    /\ amortizationSchedule # <<>> =>
           Eq(amortizationSchedule[Len(amortizationSchedule)].endingBalance, N(0))

ScheduleYearsInOrder ==
    \A k \in 1..Len(amortizationSchedule) : amortizationSchedule[k].year = k

\* C8 as stated, for the plausible inputs among the validated parameter sets:
\* the schedule has loanTermYears entries, with years 1, 2, ..., loanTermYears.
C8_OneEntryPerLoanYear ==
    (Amortized /\ PlausibleInputs) => /\ Len(amortizationSchedule) = RawTerm[1]
                                      /\ ScheduleYearsInOrder

\* C8 amended: for every validated parameter set with a loan principal other
\* than zero the schedule has one entry per loan year, with years 1, 2, ...,
\* loanTermYears (none when loanTermYears <= 0); when the principal is zero
\* (100% down payment or a price of 0) the schedule is empty.
C8_OneEntryPerLoanYearOfALoan ==
    Amortized =>
        /\ ScheduleYearsInOrder
        /\ ~Eq(LoanPrincipal, N(0)) =>
               Len(amortizationSchedule) = (IF RawTerm[1] > 0 THEN RawTerm[1] ELSE 0)
        /\ Eq(LoanPrincipal, N(0)) => amortizationSchedule = <<>>

\* A schedule for the longest loan term, with one entry for each of its years.
C8_Witness ==
    /\ Amortized
    /\ Gt(LoanPrincipal, N(0))
    /\ RawTerm = N(MaxTerm)
    /\ Len(amortizationSchedule) = MaxTerm
    /\ amortizationSchedule[MaxTerm].year = MaxTerm

\* calculatePaybackPeriod has run.
PaybackKnown == pc \in {"ratios", "summary", "done", "failed"}

Cumulative(t) == Flow(t).cumulativeCashFlow

\* C9 as stated, for plausible inputs with a loan term of a year or more and
\* a down payment above zero: a non-null paybackPeriod p is a number with
\* cumulativeCashFlow[floor(p)] < 0 <= cumulativeCashFlow[ceil(p)].
C9_PaybackBracketsSignChange ==
    ( /\ PaybackKnown /\ PlausibleInputs /\ RawTerm[1] >= 1
      /\ Gt(params.downPaymentPercent, N(0)) /\ paybackPeriod # Null ) =>
        /\ IsFinite(paybackPeriod)
        /\ Floor(paybackPeriod) \in 0..LastYear
        /\ Ceil(paybackPeriod) \in 0..LastYear
        /\ Lt(Cumulative(Floor(paybackPeriod)), N(0))
        /\ Ge(Cumulative(Ceil(paybackPeriod)), N(0))

\* C9 amended: a non-null paybackPeriod p of a projection with a positive
\* initial equity outflow is a number with
\* cumulativeCashFlow[ceil(p) - 1] < 0 <= cumulativeCashFlow[ceil(p)]; the
\* year ceil(p) - 1 is floor(p) unless p is a whole number of years, which it
\* is exactly when the cumulative series is zero at the end of year p.
C9_PaybackBracketsFirstRecovery ==
    (PaybackKnown /\ paybackPeriod # Null /\ Lt(Cumulative(0), N(0))) =>
        /\ IsFinite(paybackPeriod)
        /\ Ceil(paybackPeriod) \in 1..LastYear
        /\ Lt(Cumulative(Ceil(paybackPeriod) - 1), N(0))
        /\ Ge(Cumulative(Ceil(paybackPeriod)), N(0))
        /\ (Floor(paybackPeriod) = Ceil(paybackPeriod))
               <=> Eq(Cumulative(Ceil(paybackPeriod)), N(0))
        /\ (pc = "done" => results[1].paybackPeriod = paybackPeriod)

\* A payback in the course of the second year.
C9_Witness ==
    /\ pc = "done"
    /\ IsFinite(paybackPeriod)
    /\ Lt(Cumulative(0), N(0))
    /\ Floor(paybackPeriod) = 1
    /\ Ceil(paybackPeriod) = 2

\* C10 as stated, for plausible inputs with a loan term of a year or more:
\* when ebitda is less than the debt payment in every operating year,
\* paybackPeriod is null.
C10_NoPaybackBelowDebtService ==
    ( /\ PaybackKnown /\ PlausibleInputs /\ RawTerm[1] >= 1
      /\ \A y \in 1..LastYear : Lt(Flow(y).ebitda, Flow(y).debtPayment) )
        => paybackPeriod = Null

\* C10 amended: when the initial equity outflow is not negative and ebitda
\* plus the terminal value is less than the debt payment in every operating
\* year (every operating netCashFlow is negative), paybackPeriod is null.
C10_NoPaybackWithoutPositiveYear ==
    ( /\ PaybackKnown
      /\ Le(Cumulative(0), N(0))
      /\ \A y \in 1..LastYear :
            Lt(Add(Flow(y).ebitda, Flow(y).terminalValue), Flow(y).debtPayment) )
        => paybackPeriod = Null

\* Two operating years in which debt service exceeds ebitda plus the terminal
\* value, and no payback.
C10_Witness ==
    /\ pc = "done"
    /\ LastYear = 2
    /\ \A y \in 1..2 : /\ Gt(Flow(y).debtPayment, N(0))
                       /\ Lt(Flow(y).netCashFlow, N(0))
    /\ Gt(Flow(2).terminalValue, N(0))
    /\ results[1].paybackPeriod = Null

(***************************************************************************)
(* Valuation Engine: calculateIRR on its own                               *)
(***************************************************************************)
\* Longest cash-flow series handed to calculateIRR directly.
MaxSeries == 3

\* netCashFlow values of those series; NaN and Infinity are what parseFloat
\* and a division by zero leave in a series.
NetValues == {N(-100), N(-1), N(0), N(100), N(110), NaN, PosInf}

SeriesOf(net) == [t \in 1..Len(net) |-> [year |-> t - 1, netCashFlow |-> net[t]]]

FlowSeries == UNION {{SeriesOf(net) : net \in [1..n -> NetValues]} : n \in 0..MaxSeries}

\* Estimates from which one Newton-Raphson update is taken: the initial guess
\* and the two bounds.
Estimates == {IrrInitialGuess, IrrLowerBound, IrrUpperBound}

\* The model instance of BaseParams about to call calculateIRR(cashFlows) on
\* a series of the caller's, or inside its loop with the estimate irr.
IrrInit ==
    /\ pc = "irr"
    /\ params = BaseParams
    /\ parameters = Normalized(BaseParams)
    /\ discountRate = DiscountRate
    /\ analysisHorizon = HorizonOf(Normalized(BaseParams))
    /\ cashFlows \in FlowSeries
    /\ amortizationSchedule = <<>>
    /\ npv = DNaN
    /\ irr \in Estimates
    /\ paybackPeriod = Undefined
    /\ keyRatios = <<>>
    /\ summary = <<>>
    /\ results = <<>>
    /\ error = <<>>
    /\ NothingOutside

\* One pass of the loop body that reaches the update: npv is not within the
\* tolerance and dnpv is not zero.
IrrStep ==
    /\ pc = "irr"
    /\ LET sums == IrrSums([t \in 1..Len(cashFlows) |-> DFromNum(cashFlows[t].netCashFlow)],
                           0, irr, [npv |-> DInt(0), dnpv |-> DInt(0)],
                           DPow(DAdd(DInt(1), irr), 0))
       IN  /\ ~DLt(DAbs(sums.npv), IrrTolerance)
           /\ sums.dnpv # DInt(0)
           /\ irr' = IrrUpdate(irr, sums)
    /\ pc' = "updated"
    /\ UNCHANGED <<params, parameters, discountRate, analysisHorizon, cashFlows,
                   amortizationSchedule, npv, paybackPeriod, keyRatios, summary,
                   results, error>>
    /\ UNCHANGED outside

IrrNext ==
    \/ IrrStep
    \/ CalcIRR

IrrSpec == IrrInit /\ [][IrrNext]_vars

\* An update of the estimate has been made, or calculateIRR has returned.
IrrSettled == pc \in {"updated", "payback", "ratios", "summary", "done", "failed"}

\* -0.99 <= x <= 10.
IrrInRange(x) == ~DIsNaN(x) /\ ~DLt(x, IrrLowerBound) /\ ~DLt(IrrUpperBound, x)

\* Every netCashFlow of the series is a finite number.
FiniteFlows == \A t \in 1..Len(cashFlows) : IsFinite(cashFlows[t].netCashFlow)

\* C11 as stated: after every update, and for the value calculateIRR returns
\* on any cash-flow series, -0.99 <= irr <= 10.
C11_IrrWithinClamp ==
    IrrSettled => IrrInRange(irr)

\* C11: after every update, and for the value calculateIRR returns, the
\* estimate is NaN or lies in [-0.99, 10], and it lies in [-0.99, 10] whenever
\* every netCashFlow of the series is finite. A NaN estimate passes both
\* bounds checks, since every comparison with NaN is false.
C11_IrrWithinClampOrNaN ==
    IrrSettled =>
        /\ DIsNaN(irr) \/ IrrInRange(irr)
        /\ FiniteFlows => IrrInRange(irr)

\* calculateIRR returned an estimate that an update moved onto a bound.
C11_Witness ==
    /\ pc = "payback"
    /\ Len(cashFlows) >= 2
    /\ FiniteFlows
    /\ irr \in {IrrLowerBound, IrrUpperBound}

(***************************************************************************)
(* Valuation Engine: the net present value                                 *)
(***************************************************************************)
\* calculateNPV has returned.
NpvComputed == pc \in {"irr", "payback", "ratios", "summary", "done", "failed"}

\* netCashFlow_t / 1.10^t for t = 0..k-1, added from year 0 on.
RECURSIVE DiscountedSum(_)
DiscountedSum(k) ==
    IF k = 0 THEN DInt(0)
    ELSE DAdd(DiscountedSum(k - 1),
              DDiv(DFromNum(cashFlows[k].netCashFlow),
                   DPow(DFromNum(Norm(110, 100)), k - 1)))

\* C12: npv is the sum over every entry of cashFlows, year 0 included, of
\* netCashFlow / 1.10^year, and the rate of the instance is 10% whatever the
\* parameters are.
C12_NpvDiscountsEveryYearAtTenPercent ==
    /\ pc \notin {"new", "rejected"} => discountRate = Norm(10, 100)
    /\ NpvComputed => npv = DiscountedSum(Len(cashFlows))
    /\ pc = "done" => results[1].npv = DiscountedSum(Len(cashFlows))

\* A two-year projection with an equity outflow and a final-year inflow, at
\* an interest rate that is not 10%, and an npv that differs from the plain sum.
C12_Witness ==
    /\ pc = "done"
    /\ LastYear = 2
    /\ Lt(Flow(0).netCashFlow, N(0))
    /\ Gt(Flow(2).netCashFlow, N(0))
    /\ parameters.interestRatePercent # Norm(10, 100)
    /\ ~DIsNaN(results[1].npv)
    /\ results[1].npv # DFromNum(Cumulative(2))

(***************************************************************************)
(* Amortization Engine: the zero-interest loan                             *)
(***************************************************************************)
\* Every year of the loan term pays debtPayment = principal / loanTermYears,
\* and every amortization entry repays that amount and no interest.
StraightLine ==
    /\ Projected =>
           \A y \in 1..LastYear :
               Le(N(y), parameters.loanTermYears) =>
                   Eq(Flow(y).debtPayment, Div(LoanPrincipal, parameters.loanTermYears))
    /\ Amortized =>
           \A k \in 1..Len(amortizationSchedule) :
               /\ Eq(amortizationSchedule[k].principal,
                     Div(LoanPrincipal, parameters.loanTermYears))
               /\ Eq(amortizationSchedule[k].interest, N(0))

RatiosComputed == pc \in {"summary", "done", "failed"}

\* The sum of a column of cashFlows over the operating years 1..y.
RECURSIVE Total(_, _)
Total(field, y) == IF y <= 0 THEN N(0) ELSE Add(Total(field, y - 1), Flow(y)[field])

TotalRevenue == Total("revenue", LastYear)
TotalOpex == Total("opex", LastYear)
AvgAnnualEbitda == Div(Sub(TotalRevenue, TotalOpex), N(LastYear))
AvgAnnualDebtService == Div(Total("debtPayment", LastYear), parameters.loanTermYears)
EquityOutflow == Mul(RawPrice, RawDownFraction)

Validated == pc \notin {"new", "rejected"}

\* C15 as stated, for plausible inputs: after validation scrapValue is
\* price * 0.15 when the input map has no scrapValue and is the supplied
\* amount whenever one is supplied, 0 included, and that amount is the
\* terminalValue of the final year.
C15_SuppliedScrapValueKept ==
    (Validated /\ PlausibleInputs) =>
        /\ parameters.scrapValue =
               IF IsAbsent(params.scrapValue) THEN Mul(RawPrice, Norm(15, 100))
               ELSE params.scrapValue
        /\ (Projected /\ LastYear >= 1 /\ ~IsAbsent(params.scrapValue)) =>
               Flow(LastYear).terminalValue = params.scrapValue

(***************************************************************************)
(* Parameter Normalizer: percentages                                       *)
(***************************************************************************)
PercentFields == {"downPaymentPercent", "interestRatePercent", "utilizationPercent"}

\* 0 <= x <= hi.
Within(x, hi) == Ge(x, N(0)) /\ Le(x, hi)

\* Each percentage field of the normalized parameters is the input / 100.
DividedByHundred ==
    \A f \in PercentFields : parameters[f] = Div(params[f], N(100))

\* The steps after validation compute with the fractions: the equity outflow
\* of year 0, the revenue of every operating year and the rate printed in the
\* summary are those of input / 100.
FractionsRead ==
    /\ Projected =>
           /\ Eq(Flow(0).netCashFlow,
                 Neg(Mul(RawPrice, Div(params.downPaymentPercent, N(100)))))
           /\ \A y \in 1..LastYear :
                  Eq(Flow(y).revenue,
                     Mul(Mul(params.dailyCharterRate, N(365)),
                         Div(params.utilizationPercent, N(100))))
    /\ pc = "done" =>
           /\ results[1].summary.financingTerms[2] =
                  toFixed2(Mul(Div(params.interestRatePercent, N(100)), N(100)))
           /\ results[1].summary.operatingAssumptions.utilization =
                  toFixed1(Mul(Div(params.utilizationPercent, N(100)), N(100)))

MaxRuns == 2

\* The fields of the one instance and the locals of its running call.
instance == <<pc, params, parameters, discountRate, analysisHorizon, cashFlows,
              amortizationSchedule, npv, irr, paybackPeriod, keyRatios, summary,
              results, error>>

\* A second instance about to be constructed from the parameter map q.
NewInstance(q) ==
    [pc |-> "new", params |-> q, parameters |-> NoParameters,
     discountRate |-> Undefined, analysisHorizon |-> Undefined,
     cashFlows |-> <<>>, amortizationSchedule |-> <<>>, npv |-> DNaN,
     irr |-> DNaN, paybackPeriod |-> Undefined, keyRatios |-> <<>>,
     summary |-> <<>>, results |-> <<>>, error |-> <<>>]

Running(r) == r.pc \notin {"rejected", "failed", "done"}

\* The next statement of the constructor or of calculateFinancialMetrics on
\* the instance r: what Construct .. Summarize do, on r's own fields.
StepOf(r) ==
    CASE r.pc = "new" ->
            IF FirstMissing(r.params) # 0
            THEN [r EXCEPT !.pc = "rejected",
                           !.error = <<"Missing required parameter: ",
                                       required[FirstMissing(r.params)]>>]
            ELSE [r EXCEPT !.pc = "constructed",
                           !.parameters = Normalized(r.params),
                           !.discountRate = DiscountRate,
                           !.analysisHorizon = HorizonOf(Normalized(r.params))]
      [] r.pc = "constructed" ->
            [r EXCEPT !.pc = "amortization",
                      !.cashFlows = calculateCashFlows(r.parameters, r.analysisHorizon)]
      [] r.pc = "amortization" ->
            [r EXCEPT !.pc = "npv",
                      !.amortizationSchedule = calculateAmortizationSchedule(r.parameters)]
      [] r.pc = "npv" ->
            [r EXCEPT !.pc = "irr", !.npv = calculateNPV(r.cashFlows, r.discountRate)]
      [] r.pc = "irr" ->
            [r EXCEPT !.pc = "payback", !.irr = calculateIRR(r.cashFlows)]
      [] r.pc = "payback" ->
            [r EXCEPT !.pc = "ratios",
                      !.paybackPeriod = calculatePaybackPeriod(r.cashFlows)]
      [] r.pc = "ratios" ->
            [r EXCEPT !.pc = "summary",
                      !.keyRatios = <<calculateKeyRatios(r.cashFlows, r.parameters)>>]
      [] r.pc = "summary" ->
            IF SummaryThrows(r.parameters)
            THEN [r EXCEPT !.pc = "failed",
                           !.error = <<"Financial calculation error: ", "TypeError">>]
            ELSE [r EXCEPT !.pc = "done",
                           !.summary = <<generateSummary(r.parameters)>>,
                           !.results =
                               <<[npv                  |-> r.npv,
                                  irr                  |-> r.irr,
                                  paybackPeriod        |-> r.paybackPeriod,
                                  cashFlows            |-> r.cashFlows,
                                  amortizationSchedule |-> r.amortizationSchedule,
                                  keyRatios            |-> r.keyRatios[1],
                                  summary              |-> generateSummary(r.parameters)]>>]
      [] OTHER -> r

\* The instance r run to its end with nothing else going on.
RECURSIVE RunAlone(_)
RunAlone(r) == IF Running(r) THEN RunAlone(StepOf(r)) ELSE r

\* The parameter maps of the two instances.
PairInputs ==
    {BaseParams,
     [BaseParams EXCEPT !.downPaymentPercent = N(0), !.loanTermYears = N(2)],
     [BaseParams EXCEPT !.interestRatePercent = N(1200), !.scrapValue = Undefined],
     [BaseParams EXCEPT !.dailyCharterRate = Undefined]}

PairInit ==
    /\ pc = "new"
    /\ params \in PairInputs
    /\ parameters = NoParameters
    /\ discountRate = Undefined
    /\ analysisHorizon = Undefined
    /\ cashFlows = <<>>
    /\ amortizationSchedule = <<>>
    /\ npv = DNaN
    /\ irr = DNaN
    /\ paybackPeriod = Undefined
    /\ keyRatios = <<>>
    /\ summary = <<>>
    /\ results = <<>>
    /\ error = <<>>
    /\ other \in {NewInstance(q) : q \in PairInputs}
    /\ returned = <<>>
    /\ request = <<>>
    /\ firestoreService = FALSE
    /\ response = <<>>
    /\ analyses = <<>>
    /\ calls = <<>>
    /\ reply = <<>>
    /\ NothingElsewhere

\* As OtherStep, with the cash-flow series kept in one place for both
\* instances: the second instance computes on the first one's series.
OtherStepOnSharedCashFlows ==
    /\ other # <<>>
    /\ Running(other)
    /\ other' = StepOf([other EXCEPT !.cashFlows =
                            IF other.pc \in {"npv", "irr", "payback", "ratios"}
                            THEN cashFlows ELSE other.cashFlows])
    /\ UNCHANGED <<instance, returned, server, elsewhere>>

\* The second instance runs its next statement.
OtherStep ==
    /\ other # <<>>
    /\ Running(other)
    /\ other' = StepOf(other)
    /\ UNCHANGED <<instance, returned, server, elsewhere>>

\* calculateFinancialMetrics is called again on the first instance. The caller
\* keeps the Result of the call before; the new call's locals are assigned as
\* its statements run.
Recalculate ==
    /\ pc = "done"
    /\ Len(returned) < MaxRuns - 1
    /\ returned' = Append(returned, results[1])
    /\ pc' = "constructed"
    /\ results' = <<>>
    /\ UNCHANGED <<params, parameters, discountRate, analysisHorizon, cashFlows,
                   amortizationSchedule, npv, irr, paybackPeriod, keyRatios,
                   summary, error, other, server, elsewhere>>

PairNext ==
    \/ Construct
    \/ CalcCashFlows
    \/ CalcAmortization
    \/ CalcNPV
    \/ CalcIRR
    \/ CalcPayback
    \/ CalcKeyRatios
    \/ Summarize
    \/ Recalculate
    \/ OtherStep

PairSpec == PairInit /\ [][PairNext]_vars

\* C17: calculations started from identical parameter maps yield equal
\* Results: every Result the first instance has returned equals the one it
\* returns now (the same instance called again), and equals the Result of the
\* second instance when that was constructed from the same map.
C17_IdenticalParametersIdenticalResults ==
    /\ \A k \in 1..Len(returned) :
           /\ results # <<>> => results[1] = returned[k]
           /\ (other.params = params /\ other.results # <<>>) =>
                  other.results[1] = returned[k]
    /\ (other.params = params /\ results # <<>> /\ other.results # <<>>) =>
           results = other.results
    /\ (other.params = params /\ pc = "rejected" /\ other.pc = "rejected") =>
           error = other.error

\* The first instance has returned its second Result and the second instance,
\* constructed from the same map, its own.
C17_Witness ==
    /\ pc = "done"
    /\ Len(returned) = 1
    /\ other.pc = "done"
    /\ other.params = params
    /\ Len(results[1].cashFlows) >= 2

\* The two instances are at their ends.
Ended == pc \in {"rejected", "failed", "done"}

\* C19: with the statements of two calculations interleaved in any order,
\* each ends with the Result, or the error, of the same calculation run
\* alone, and a step of one leaves every field and local of the other as it
\* was.
C19_InterleavedAsAlone ==
    /\ [](Ended => /\ results = RunAlone(NewInstance(params)).results
                   /\ error = RunAlone(NewInstance(params)).error)
    /\ [](~Running(other) => other = RunAlone(NewInstance(other.params)))
    /\ [][(other' # other => instance' = instance)
          /\ (instance' # instance => other' = other)]_vars

\* Two calculations on different parameter maps have returned different
\* Results.
C19_Witness ==
    /\ pc = "done"
    /\ other.pc = "done"
    /\ other.params # params
    /\ other.results # results
    /\ returned = <<>>

(***************************************************************************)
(* FirestoreService: the 'analyses' collection                             *)
(***************************************************************************)
StrVesselAnalysis == Str(3)
StrMyAnalysis == Str(4)
UserA == Str(5)
UserB == Str(6)

\* The uid of the verified token of a request.
Users == {UserA, UserB}

\* sanitizeData on a number held by an object: NaN and the infinities become
\* null; an undefined value is skipped, so the key stays absent.
SanitizeNumber(v) == IF IsNumber(v) /\ ~IsFinite(v) THEN Null ELSE v

SanitizeFloat(x) == IF DIsNaN(x) \/ DIsInf(x) THEN Null ELSE x

\* sanitizeData on one entry of cashFlows or amortizationSchedule.
SanitizeEntry(e) ==
    [f \in DOMAIN e |-> IF f = "year" THEN e[f] ELSE SanitizeNumber(e[f])]

\* sanitizeData(results): a new object, built key by key.
SanitizeResults(r) ==
    [npv                  |-> SanitizeFloat(r.npv),
     irr                  |-> SanitizeFloat(r.irr),
     paybackPeriod        |-> SanitizeNumber(r.paybackPeriod),
     cashFlows            |-> [t \in 1..Len(r.cashFlows) |-> SanitizeEntry(r.cashFlows[t])],
     amortizationSchedule |-> [k \in 1..Len(r.amortizationSchedule) |->
                                  SanitizeEntry(r.amortizationSchedule[k])],
     keyRatios            |-> [f \in DOMAIN r.keyRatios |-> SanitizeNumber(r.keyRatios[f])],
     summary              |->
         [r.summary EXCEPT
             !.purchasePrice = SanitizeNumber(r.summary.purchasePrice),
             !.operatingAssumptions =
                 [r.summary.operatingAssumptions EXCEPT
                     !.dailyRate = SanitizeNumber(r.summary.operatingAssumptions.dailyRate),
                     !.annualOperatingDays =
                         SanitizeNumber(r.summary.operatingAssumptions.annualOperatingDays)]]]

\* sanitizeData(parameters) on the raw parameter map.
SanitizeParameters(q) == [f \in DOMAIN q |-> SanitizeNumber(q[f])]

\* The document saveAnalysis adds; the two server timestamps are left out.
AnalysisDoc(userId, analysisName, parameters_, results_) ==
    [userId       |-> userId,
     analysisName |-> OrElse(analysisName, StrVesselAnalysis),
     parameters   |-> parameters_,
     results      |-> results_,
     version      |-> 1]

\* A document snapshot: exists and data().
Snapshot(doc) == [exists |-> TRUE, data |-> doc]
Missing == [exists |-> FALSE]

\* collection('analyses').add(doc): the new document's id is its place in
\* analyses; ids are never given twice.
Added(doc) == Append(analyses, Snapshot(doc))

(***************************************************************************)
(* POST /api/calculate                                                     *)
(***************************************************************************)
\* No argument yet: the constructor has not been called.
NoArgument == [f \in RawFields |-> Undefined]

\* req.body.parameters of the requests: a complete map, one with a loan term
\* of 0 (whose ratios hold a NaN), one without a price, one with a negative
\* price.
BodyParameters ==
    {BaseParams,
     [BaseParams EXCEPT !.loanTermYears = N(0)],
     [BaseParams EXCEPT !.price = Undefined],
     [BaseParams EXCEPT !.price = N(-100)]}

\* req after verifyFirebaseToken: the uid of the token and the body, whose
\* parameters are <<>> when the body has none.
Requests ==
    [uid : Users, analysisName : {Undefined, StrMyAnalysis},
     parameters : {<<>>} \cup {<<q>> : q \in BodyParameters}]

RequestInit ==
    /\ pc = "request"
    /\ params = NoArgument
    /\ parameters = NoParameters
    /\ discountRate = Undefined
    /\ analysisHorizon = Undefined
    /\ cashFlows = <<>>
    /\ amortizationSchedule = <<>>
    /\ npv = DNaN
    /\ irr = DNaN
    /\ paybackPeriod = Undefined
    /\ keyRatios = <<>>
    /\ summary = <<>>
    /\ results = <<>>
    /\ error = <<>>
    /\ other = <<>>
    /\ returned = <<>>
    /\ request \in Requests
    /\ firestoreService \in BOOLEAN
    /\ response = <<>>
    /\ analyses = <<>>
    /\ calls = <<>>
    /\ reply = <<>>
    /\ NothingElsewhere

\* if (!parameters) return res.status(400)...; otherwise the map is handed to
\* the constructor.
CheckParameters ==
    /\ pc = "request"
    /\ IF request.parameters = <<>>
       THEN /\ response' = <<[status |-> 400, error |-> "Parameters are required"]>>
            /\ pc' = "responded"
            /\ UNCHANGED params
       ELSE /\ params' = request.parameters[1]
            /\ pc' = "new"
            /\ UNCHANGED response
    /\ UNCHANGED <<parameters, discountRate, analysisHorizon, locals, results, error,
                   other, returned, elsewhere, request, firestoreService, analyses, calls, reply>>

\* What firestoreService.saveAnalysis gave the handler: the id of the added
\* document, or the Error it threw.
Saved(analysisId) ==
    <<[op |-> "saveAnalysis", userId |-> request.uid, analysisId |-> analysisId,
       seen |-> Missing, outcome |-> "saved", doc |-> <<>>]>>

SaveFailed ==
    <<[op |-> "saveAnalysis", userId |-> request.uid, analysisId |-> 0,
       seen |-> Missing, outcome |-> "Save analysis failed", doc |-> <<>>]>>

\* As SaveCalculated, with sanitizeData cleaning the Result in place rather
\* than building a new object.
SaveCalculatedSanitizingInPlace ==
    /\ pc = "done"
    /\ \/ /\ ~firestoreService
          /\ UNCHANGED <<analyses, results, reply>>
       \/ /\ firestoreService
          /\ analyses' = Added(AnalysisDoc(request.uid, request.analysisName,
                                           SanitizeParameters(request.parameters[1]),
                                           SanitizeResults(results[1])))
          /\ reply' = Saved(Len(analyses'))
          /\ results' = <<SanitizeResults(results[1]) @@ ("analysisId" :> Len(analyses'))>>
       \/ /\ firestoreService
          /\ reply' = SaveFailed
          /\ UNCHANGED <<analyses, results>>
    /\ pc' = "saved"
    /\ UNCHANGED <<params, parameters, discountRate, analysisHorizon, locals, error,
                   other, returned, elsewhere, request, firestoreService, response, calls>>

\* As SaveCalculated, without the try around saveAnalysis: its Error reaches
\* the catch of the handler.
SaveCalculatedOrFail ==
    /\ pc = "done"
    /\ \/ /\ ~firestoreService
          /\ pc' = "saved"
          /\ UNCHANGED <<analyses, results, reply, error>>
       \/ /\ firestoreService
          /\ analyses' = Added(AnalysisDoc(request.uid, request.analysisName,
                                           SanitizeParameters(request.parameters[1]),
                                           SanitizeResults(results[1])))
          /\ reply' = Saved(Len(analyses'))
          /\ results' = <<results[1] @@ ("analysisId" :> Len(analyses'))>>
          /\ pc' = "saved"
          /\ UNCHANGED error
       \/ /\ firestoreService
          /\ reply' = SaveFailed
          /\ error' = <<"Save analysis failed">>
          /\ pc' = "failed"
          /\ UNCHANGED <<analyses, results>>
    /\ UNCHANGED <<params, parameters, discountRate, analysisHorizon, locals,
                   other, returned, elsewhere, request, firestoreService, response, calls>>

\* if (firestoreService) { try { analysisId = await saveAnalysis({...});
\* results.analysisId = analysisId } catch { log and continue } }. saveAnalysis
\* stores sanitized copies and returns the new id, or throws (no database, a
\* failed write), which leaves everything as it was. Without a
\* firestoreService nothing is saved.
SaveCalculated ==
    /\ pc = "done"
    /\ \/ /\ ~firestoreService
          /\ UNCHANGED <<analyses, results, reply>>
       \/ /\ firestoreService
          /\ analyses' = Added(AnalysisDoc(request.uid, request.analysisName,
                                           SanitizeParameters(request.parameters[1]),
                                           SanitizeResults(results[1])))
          /\ reply' = Saved(Len(analyses'))
          /\ results' = <<results[1] @@ ("analysisId" :> Len(analyses'))>>
       \/ /\ firestoreService
          /\ reply' = SaveFailed
          /\ UNCHANGED <<analyses, results>>
    /\ pc' = "saved"
    /\ UNCHANGED <<params, parameters, discountRate, analysisHorizon, locals, error,
                   other, returned, elsewhere, request, firestoreService, response, calls>>

\* res.json({ success: true, results, calculatedAt }); the time is left out.
Respond ==
    /\ pc = "saved"
    /\ response' = <<[status |-> 200, success |-> TRUE, results |-> results[1]]>>
    /\ pc' = "responded"
    /\ UNCHANGED <<params, parameters, discountRate, analysisHorizon, locals, results,
                   error, other, returned, elsewhere, request, firestoreService, analyses, calls,
                   reply>>

\* The catch of the handler: the constructor or calculateFinancialMetrics threw.
RespondError ==
    /\ pc \in {"rejected", "failed"}
    /\ response' = <<[status |-> 500, error |-> "Financial calculation failed",
                      details |-> error]>>
    /\ pc' = "responded"
    /\ UNCHANGED <<params, parameters, discountRate, analysisHorizon, locals, results,
                   error, other, returned, elsewhere, request, firestoreService, analyses, calls,
                   reply>>

RequestNext ==
    \/ CheckParameters
    \/ Construct
    \/ CalcCashFlows
    \/ CalcAmortization
    \/ CalcNPV
    \/ CalcIRR
    \/ CalcPayback
    \/ CalcKeyRatios
    \/ Summarize
    \/ SaveCalculated
    \/ Respond
    \/ RespondError

RequestSpec == RequestInit /\ [][RequestNext]_vars

\* calculateFinancialMetrics has returned the Result.
ResultReturned == results # <<>>

\* The caller's map and the normalized parameters stay as they are.
ParametersKept ==
    /\ request'.parameters = request.parameters
    /\ pc # "request" => params' = params
    /\ pc \notin {"request", "new"} => parameters' = parameters

\* C18 as stated: from the moment calculateFinancialMetrics returns the
\* Result, no later step of the request adds, removes or changes a field of
\* it, and the caller's map and the normalized parameters are never changed.
C18_ResultNeverMutated ==
    [][/\ ResultReturned => results' = results
       /\ ParametersKept]_vars

\* C18: once calculateFinancialMetrics has returned the Result, no later step
\* of the request removes or changes one of its seven fields; the only change
\* is the field analysisId, added when the analysis was saved, and the
\* response carries that object. The caller's map and the normalized
\* parameters are never changed.
C18_ResultOnlyGainsAnalysisId ==
    [][/\ ResultReturned =>
              /\ \A f \in DOMAIN results[1] : /\ f \in DOMAIN results'[1]
                                              /\ results'[1][f] = results[1][f]
              /\ DOMAIN results'[1] \subseteq DOMAIN results[1] \cup {"analysisId"}
              /\ "analysisId" \in DOMAIN results'[1] =>
                     /\ results'[1].analysisId \in 1..Len(analyses')
                     /\ analyses'[results'[1].analysisId].data.userId = request.uid
              /\ response' # <<>> => response'[1].results = results[1]
       /\ ParametersKept]_vars

\* The analysis of a loan with a term of 0 was saved, with the NaN of its
\* ratios stored as null, and the response carries the Result with its
\* analysisId and the NaN.
C18_Witness ==
    /\ pc = "responded"
    /\ response[1].status = 200
    /\ "analysisId" \in DOMAIN response[1].results
    /\ response[1].results.analysisId = 1
    /\ response[1].results.keyRatios.avgAnnualDebtService = NaN
    /\ analyses[1].data.results.keyRatios.avgAnnualDebtService = Null
    /\ parameters = Normalized(request.parameters[1])

(***************************************************************************)
(* FirestoreService: the stored analyses and the calls on them             *)
(***************************************************************************)
\* How many analyses are saved.
MaxAnalyses == 2

\* The ids a call may name: given already, or not yet.
AnalysisIds == 1..MaxAnalyses

\* db.collection('analyses').doc(analysisId).get()
Get(analysisId) ==
    IF analysisId \in 1..Len(analyses) THEN analyses[analysisId] ELSE Missing

\* As Owns, without the comparison.
OwnsAny(data, userId) == TRUE

\* The ownership test of getAnalysis, updateAnalysis and deleteAnalysis:
\* data.userId !== userId throws 'Access denied: ...'.
Owns(data, userId) == data.userId = userId

\* The Result and the parameters the saved analyses hold.
SavedParameters == SanitizeParameters(BaseParams)
SavedResults == SanitizeResults(RunAlone(NewInstance(BaseParams)).results[1])

\* The updateData of the updateAnalysis calls: a new name, or a new owner.
UpdateData ==
    {[analysisName |-> StrMyAnalysis]} \cup {[userId |-> v] : v \in Users}

\* analysisRef.update(sanitizedUpdateData): the named fields are replaced, the
\* others kept; updatedAt is left out with the other timestamps.
Updated(data, updateData) == SanitizeParameters(updateData) @@ data

\* What a finished call gave: the snapshot it read, how it ended and, for
\* getAnalysis, the document it returned.
Outcome(op, userId, analysisId, seen, outcome, doc) ==
    <<[op |-> op, userId |-> userId, analysisId |-> analysisId, seen |-> seen,
       outcome |-> outcome, doc |-> doc]>>

\* A call between its get() and its write.
Pending(op, analysisId, seen, updateData) ==
    <<[op |-> op, analysisId |-> analysisId, seen |-> seen, updateData |-> updateData]>>

StoreInit ==
    /\ pc = "store"
    /\ params = NoArgument
    /\ parameters = NoParameters
    /\ discountRate = Undefined
    /\ analysisHorizon = Undefined
    /\ cashFlows = <<>>
    /\ amortizationSchedule = <<>>
    /\ npv = DNaN
    /\ irr = DNaN
    /\ paybackPeriod = Undefined
    /\ keyRatios = <<>>
    /\ summary = <<>>
    /\ results = <<>>
    /\ error = <<>>
    /\ other = <<>>
    /\ returned = <<>>
    /\ request = <<>>
    /\ firestoreService = TRUE
    /\ response = <<>>
    /\ analyses = <<>>
    /\ calls = [u \in Users |-> <<>>]
    /\ reply = <<>>
    /\ NothingElsewhere

\* saveAnalysis({ userId, analysisName, parameters, results }): the document
\* is added and its id returned.
saveAnalysis(userId, analysisName) ==
    /\ pc = "store"
    /\ calls[userId] = <<>>
    /\ Len(analyses) < MaxAnalyses
    /\ analyses' = Added(AnalysisDoc(userId, analysisName, SavedParameters, SavedResults))
    /\ reply' = Outcome("saveAnalysis", userId, Len(analyses'), Missing, "saved", <<>>)
    /\ UNCHANGED <<instance, other, returned, elsewhere, request, firestoreService, response, calls>>

\* getAnalysis(analysisId, userId): null for a missing document, 'Access
\* denied' for another user's, else { id, ...data }.
getAnalysis(analysisId, userId) ==
    /\ pc = "store"
    /\ calls[userId] = <<>>
    /\ LET analysisDoc == Get(analysisId)
       IN  reply' =
               IF ~analysisDoc.exists
                   THEN Outcome("getAnalysis", userId, analysisId, analysisDoc, "null", <<>>)
               ELSE IF ~Owns(analysisDoc.data, userId)
                   THEN Outcome("getAnalysis", userId, analysisId, analysisDoc,
                                "Access denied", <<>>)
               ELSE Outcome("getAnalysis", userId, analysisId, analysisDoc, "document",
                            <<analysisDoc.data>>)
    /\ UNCHANGED <<instance, other, returned, elsewhere, request, firestoreService, response,
                   analyses, calls>>

\* updateAnalysis up to its await analysisRef.update(...): the document is
\* read; a missing one and another user's end the call.
updateAnalysis(analysisId, userId, updateData) ==
    /\ pc = "store"
    /\ calls[userId] = <<>>
    /\ LET analysisDoc == Get(analysisId)
       IN  IF ~analysisDoc.exists
               THEN /\ reply' = Outcome("updateAnalysis", userId, analysisId, analysisDoc,
                                        "Analysis not found", <<>>)
                    /\ UNCHANGED calls
           ELSE IF ~Owns(analysisDoc.data, userId)
               THEN /\ reply' = Outcome("updateAnalysis", userId, analysisId, analysisDoc,
                                        "Access denied", <<>>)
                    /\ UNCHANGED calls
           ELSE /\ calls' = [calls EXCEPT ![userId] =
                                 Pending("updateAnalysis", analysisId, analysisDoc,
                                         <<updateData>>)]
                /\ UNCHANGED reply
    /\ UNCHANGED <<instance, other, returned, elsewhere, request, firestoreService, response,
                   analyses>>

\* deleteAnalysis up to its await analysisRef.delete(): false for a missing
\* document, 'Access denied' for another user's.
deleteAnalysis(analysisId, userId) ==
    /\ pc = "store"
    /\ calls[userId] = <<>>
    /\ LET analysisDoc == Get(analysisId)
       IN  IF ~analysisDoc.exists
               THEN /\ reply' = Outcome("deleteAnalysis", userId, analysisId, analysisDoc,
                                        "false", <<>>)
                    /\ UNCHANGED calls
           ELSE IF ~Owns(analysisDoc.data, userId)
               THEN /\ reply' = Outcome("deleteAnalysis", userId, analysisId, analysisDoc,
                                        "Access denied", <<>>)
                    /\ UNCHANGED calls
           ELSE /\ calls' = [calls EXCEPT ![userId] =
                                 Pending("deleteAnalysis", analysisId, analysisDoc, <<>>)]
                /\ UNCHANGED reply
    /\ UNCHANGED <<instance, other, returned, elsewhere, request, firestoreService, response,
                   analyses>>

\* The write of a pending updateAnalysis or deleteAnalysis, on the document
\* as it is by then: update() of a document deleted meanwhile fails, delete()
\* of one succeeds.
Write(userId) ==
    /\ pc = "store"
    /\ calls[userId] # <<>>
    /\ LET call == calls[userId][1]
           now  == Get(call.analysisId)
       IN  IF call.op = "deleteAnalysis"
               THEN /\ analyses' = [analyses EXCEPT ![call.analysisId] = Missing]
                    /\ reply' = Outcome(call.op, userId, call.analysisId, call.seen,
                                        "true", <<>>)
           ELSE IF ~now.exists
               THEN /\ reply' = Outcome(call.op, userId, call.analysisId, call.seen,
                                        "Update analysis failed", <<>>)
                    /\ UNCHANGED analyses
           ELSE /\ analyses' = [analyses EXCEPT ![call.analysisId] =
                                    Snapshot(Updated(now.data, call.updateData[1]))]
                /\ reply' = Outcome(call.op, userId, call.analysisId, call.seen,
                                    "true", <<>>)
    /\ calls' = [calls EXCEPT ![userId] = <<>>]
    /\ UNCHANGED <<instance, other, returned, elsewhere, request, firestoreService, response>>

StoreNext ==
    \/ \E userId \in Users : saveAnalysis(userId, Undefined)
    \/ \E analysisId \in AnalysisIds, userId \in Users : getAnalysis(analysisId, userId)
    \/ \E analysisId \in AnalysisIds, userId \in Users, updateData \in UpdateData :
           updateAnalysis(analysisId, userId, updateData)
    \/ \E analysisId \in AnalysisIds, userId \in Users : deleteAnalysis(analysisId, userId)
    \/ \E userId \in Users : Write(userId)

StoreSpec == StoreInit /\ [][StoreNext]_vars

\* The last finished call was made with a userId other than the one stored on
\* the document it read.
CalledByAnother ==
    /\ reply # <<>>
    /\ reply[1].seen.exists
    /\ reply[1].seen.data.userId # reply[1].userId

\* The step ends a call with 'Access denied'.
Denies == reply' # reply /\ reply'[1].outcome = "Access denied"

\* C20: stored analyses are isolated by owner. Over any sequence of
\* saveAnalysis, getAnalysis, updateAnalysis and deleteAnalysis calls by any
\* users, getAnalysis returns a document only to the user whose userId is
\* stored on it; a getAnalysis, updateAnalysis or deleteAnalysis called with a
\* userId other than the one stored on the document it reads ends with
\* 'Access denied', never reaches its write, and leaves every stored document
\* unchanged and not deleted.
C20_IsolatedByOwner ==
    /\ [](reply # <<>> /\ reply[1].doc # <<>> =>
              /\ reply[1].doc[1].userId = reply[1].userId
              /\ reply[1].doc[1] = reply[1].seen.data)
    /\ [](CalledByAnother => reply[1].outcome = "Access denied" /\ reply[1].doc = <<>>)
    /\ [](\A u \in Users : calls[u] # <<>> =>
              /\ calls[u][1].seen.exists
              /\ calls[u][1].seen.data.userId = u)
    /\ [][Denies => analyses' = analyses /\ calls' = calls]_vars

\* UserB called deleteAnalysis on the analysis of UserA: the call was denied
\* and the analysis is stored as it was saved.
C20_Witness ==
    /\ CalledByAnother
    /\ reply[1].op = "deleteAnalysis"
    /\ reply[1].userId = UserB
    /\ reply[1].outcome = "Access denied"
    /\ analyses[reply[1].analysisId] =
           Snapshot(AnalysisDoc(UserA, Undefined, SavedParameters, SavedResults))
    /\ Len(analyses) = MaxAnalyses

(***************************************************************************)
(* Debt service in the projection and in the schedule                      *)
(***************************************************************************)
\* The sum of the payment column over the first k entries of the schedule.
RECURSIVE PaymentsMade(_)
PaymentsMade(k) ==
    IF k = 0 THEN N(0) ELSE Add(PaymentsMade(k - 1), amortizationSchedule[k].payment)

\* The debtPayment of each loan year is the payment of the schedule's entry
\* for that year, which is its principal plus its interest.
DebtServiceAgrees ==
    \A y \in 1..RawTerm[1] :
        /\ y <= LastYear
        /\ y <= Len(amortizationSchedule)
        /\ Eq(Flow(y).debtPayment, amortizationSchedule[y].payment)
        /\ Eq(amortizationSchedule[y].payment,
              Add(amortizationSchedule[y].principal, amortizationSchedule[y].interest))

TotalsAgree ==
    Eq(Total("debtPayment", LastYear), PaymentsMade(Len(amortizationSchedule)))

\* C26 as stated, for the plausible inputs among the validated parameter
\* sets: for every year y in 1..loanTermYears, cashFlows[y].debtPayment equals
\* the payment (principal + interest) of the schedule entry for year y, and
\* the total of debtPayment equals the total of the schedule's payments.
C26_DebtServiceAgrees ==
    (Amortized /\ PlausibleInputs) => DebtServiceAgrees /\ TotalsAgree

\* C26 amended: for every validated parameter set with a positive loan
\* principal, cashFlows[y].debtPayment equals, in exact arithmetic, the
\* payment (principal + interest) of the schedule entry for year y for every
\* y in 1..loanTermYears; with a principal of zero the schedule has no entries
\* and every debtPayment is 0; in both cases the totals are equal.
C26_DebtServiceAgreesForALoan ==
    Amortized =>
        /\ Gt(LoanPrincipal, N(0)) => DebtServiceAgrees /\ TotalsAgree
        /\ (Eq(LoanPrincipal, N(0)) /\ RawTerm[1] >= 1) =>
               /\ amortizationSchedule = <<>>
               /\ \A y \in 1..LastYear : Eq(Flow(y).debtPayment, N(0))
               /\ TotalsAgree

\* A loan of one year at a positive rate: the year's debtPayment is the
\* schedule's payment, interest included.
C26_Witness ==
    /\ pc = "done"
    /\ Gt(LoanPrincipal, N(0))
    /\ Len(amortizationSchedule) = 1
    /\ Gt(amortizationSchedule[1].interest, N(0))
    /\ Gt(Flow(1).debtPayment, amortizationSchedule[1].principal)
    /\ Flow(1).debtPayment = amortizationSchedule[1].payment

\* The entry of the schedule for year k.
Entry(k) == amortizationSchedule[k]

\* The balance of the schedule goes down year over year, from the loan
\* principal, and nothing in it is negative.
BalanceDecreases ==
    \A k \in 1..Len(amortizationSchedule) :
        /\ Lt(Entry(k).endingBalance, Entry(k).startingBalance)
        /\ Entry(k).startingBalance =
               (IF k = 1 THEN Mul(parameters.price, Sub(N(1), parameters.downPaymentPercent))
                ELSE Entry(k - 1).endingBalance)
        /\ k > 1 => Lt(Entry(k).startingBalance, Entry(k - 1).startingBalance)
        /\ Ge(Entry(k).principal, N(0))
        /\ Ge(Entry(k).startingBalance, N(0))
        /\ Ge(Entry(k).endingBalance, N(0))

RecoveredYears == {i \in 1..LastYear : Ge(NetSum(i), N(0))}

FirstRecoveredYear == CHOOSE i \in RecoveredYears : \A j \in RecoveredYears : i <= j

\* C29, for the plausible inputs among the validated parameter sets:
\* calculatePaybackPeriod returns null exactly when no year index i > 0 has a
\* non-negative cumulative cash flow; otherwise, with i the first such year, it
\* returns (i - 1) + (-cumulative[i - 1] / netCashFlow[i]), a well-defined
\* number in the closed interval [i - 1, i].
C29_PaybackInterpolatesWithinFirstRecoveredYear ==
    (PaybackKnown /\ PlausibleInputs) =>
        /\ paybackPeriod = Null <=> RecoveredYears = {}
        /\ RecoveredYears # {} =>
               LET i == FirstRecoveredYear
               IN  /\ paybackPeriod =
                          Add(N(i - 1), Div(Neg(NetSum(i - 1)), Flow(i).netCashFlow))
                   /\ IsFinite(paybackPeriod)
                   /\ Ge(paybackPeriod, N(i - 1))
                   /\ Le(paybackPeriod, N(i))

(***************************************************************************)
(* Valuation Engine: the loop of calculateIRR, one iteration at a time     *)
(***************************************************************************)
\* The series whose search is followed step by step: those of amounts with a
\* root, without one, and with a NaN.
NewtonSeries ==
    {flows \in FlowSeries :
        \A t \in 1..Len(flows) :
            flows[t].netCashFlow \in {N(-100), N(-1), N(100), NaN}}

\* calculateIRR(cashFlows) has been called on a series: let irr = 0.1, i = 0.
NewtonInit ==
    /\ pc = "newton"
    /\ params = BaseParams
    /\ parameters = Normalized(BaseParams)
    /\ discountRate = DiscountRate
    /\ analysisHorizon = HorizonOf(Normalized(BaseParams))
    /\ cashFlows \in NewtonSeries
    /\ amortizationSchedule = <<>>
    /\ npv = DNaN
    /\ irr = IrrInitialGuess
    /\ paybackPeriod = Undefined
    /\ keyRatios = <<>>
    /\ summary = <<>>
    /\ results = <<>>
    /\ error = <<>>
    /\ NothingOutside

\* npv and dnpv of the series at the estimate irr, as the forEach adds them up.
SumsAt(estimate) ==
    IrrSums([t \in 1..Len(cashFlows) |-> DFromNum(cashFlows[t].netCashFlow)],
            0, estimate, [npv |-> DInt(0), dnpv |-> DInt(0)],
            DPow(DAdd(DInt(1), estimate), 0))

\* As WithinTolerance, comparing npv and not its absolute value.
BelowTolerance(sums) == DLt(sums.npv, IrrTolerance)

\* Math.abs(npv) < tolerance
WithinTolerance(sums) == DLt(DAbs(sums.npv), IrrTolerance)

\* The loop test i < maxIterations failed: return irr.
Exhaust ==
    /\ pc = "newton"
    /\ iteration >= maxIterations
    /\ pc' = "exhausted"
    /\ UNCHANGED <<params, parameters, discountRate, analysisHorizon, locals, results,
                   error, other, returned, server, iteration, invoked, unsanitized,
                   sanitized, currentParameters, parsed, merged, inputMessage, isTyping,
                   currentUser, sends, onMessageCalls>>

\* One pass of the loop body: return irr when npv is within the tolerance,
\* break (and return irr) when dnpv is 0, otherwise update irr and go on.
Iterate ==
    /\ pc = "newton"
    /\ iteration < maxIterations
    /\ LET sums == SumsAt(irr)
       IN  IF WithinTolerance(sums)
               THEN pc' = "converged" /\ UNCHANGED <<irr, iteration>>
           ELSE IF sums.dnpv = DInt(0)
               THEN pc' = "flat" /\ UNCHANGED <<irr, iteration>>
           ELSE /\ irr' = IrrUpdate(irr, sums)
                /\ iteration' = iteration + 1
                /\ pc' = "newton"
    /\ UNCHANGED <<params, parameters, discountRate, analysisHorizon, cashFlows,
                   amortizationSchedule, npv, paybackPeriod, keyRatios, summary,
                   results, error, other, returned, server, invoked, unsanitized,
                   sanitized, currentParameters, parsed, merged, inputMessage, isTyping,
                   currentUser, sends, onMessageCalls>>

NewtonNext ==
    \/ Iterate
    \/ Exhaust

\* The loop is run to its end: a call under way takes its next step. This is
\* weak fairness of NewtonNext, which is enabled exactly while pc = "newton".
NewtonSpec ==
    /\ NewtonInit
    /\ [][NewtonNext]_vars
    /\ []<>(pc # "newton") \/ []<><<NewtonNext>>_vars

\* calculateIRR has returned.
IrrReturned == pc \in {"converged", "flat", "exhausted"}

\* C28: the IRR search always terminates with an estimate and never signals
\* failure. Starting from the guess 0.10 it makes at most 100 iterations; it
\* returns the current estimate as soon as |NPV| < 1e-4, stops and returns the
\* current estimate when the derivative is exactly zero, and returns the
\* estimate of the last update when the cap is exhausted; the value returned
\* is what calculateIRR gives for the series.
C28_IrrSearchTerminatesWithEstimate ==
    /\ <>IrrReturned
    /\ [](error = <<>> /\ iteration \in 0..maxIterations)
    /\ [](iteration = 0 => irr = IrrInitialGuess)
    /\ [](IrrReturned => irr = calculateIRR(cashFlows))
    /\ [](pc = "converged" => DLt(DAbs(SumsAt(irr).npv), IrrTolerance))
    /\ [](pc = "flat" => SumsAt(irr).dnpv = DInt(0))
    /\ [](pc = "exhausted" => iteration = maxIterations)
    /\ [][/\ (pc = "newton" /\ iteration < maxIterations
                 /\ DLt(DAbs(SumsAt(irr).npv), IrrTolerance)) => pc' = "converged"
          /\ IrrReturned' => irr' = irr]_vars

\* The search ran through all 100 iterations on a series of finite amounts and
\* returned the estimate it had reached.
C28_Witness ==
    /\ pc = "exhausted"
    /\ iteration = maxIterations
    /\ FiniteFlows
    /\ Len(cashFlows) >= 2
    /\ IrrInRange(irr)

\* The seven properties calculateFinancialMetrics returns for the parameters
\* of the request.
Calculated == RunAlone(NewInstance(request.parameters[1])).results[1]

\* The response is a success whose results hold what was calculated.
SuccessWithResults ==
    /\ response[1].status = 200
    /\ response[1].success
    /\ \A f \in DOMAIN Calculated : /\ f \in DOMAIN response[1].results
                                    /\ response[1].results[f] = Calculated[f]

\* C22: POST /api/calculate does not fail when persistence fails. If
\* saveAnalysis rejects, the response is still a success carrying the computed
\* results without an analysisId; if saveAnalysis succeeds, the returned
\* results carry the new analysisId; in both cases the calculation had
\* completed before the save was attempted.
C22_SaveFailureDoesNotFailRequest ==
    /\ reply # <<>> => results # <<>> /\ pc \in {"saved", "responded"}
    /\ (pc = "responded" /\ reply # <<>> /\ reply[1].outcome = "Save analysis failed") =>
           /\ SuccessWithResults
           /\ "analysisId" \notin DOMAIN response[1].results
           /\ analyses = <<>>
    /\ (pc = "responded" /\ reply # <<>> /\ reply[1].outcome = "saved") =>
           /\ SuccessWithResults
           /\ "analysisId" \in DOMAIN response[1].results
           /\ response[1].results.analysisId = reply[1].analysisId
           /\ Get(reply[1].analysisId).exists
           /\ Get(reply[1].analysisId).data.userId = request.uid

\* saveAnalysis rejected and the request was answered with the results.
C22_Witness ==
    /\ pc = "responded"
    /\ firestoreService
    /\ reply = SaveFailed
    /\ response[1].status = 200
    /\ response[1].results = Calculated
    /\ response[1].results.npv # DNaN

\* The parameters of the request hold every required field and break a sanity
\* bound: a negative price, or a loan term below one year.
OutOfBounds ==
    /\ request.parameters # <<>>
    /\ \A i \in 1..Len(required) : ~IsAbsent(request.parameters[1][required[i]])
    /\ \/ Lt(request.parameters[1].price, N(0))
       \/ Lt(request.parameters[1].loanTermYears, N(1))

\* C23: POST /api/calculate rejects invalid parameters. A request whose
\* parameters contain every required field but violate a sanity bound (a
\* negative price, for one) is answered with status 500 and error 'Financial
\* calculation failed', and no results are returned or saved.
C23_OutOfBoundsParametersRejected ==
    (pc = "responded" /\ OutOfBounds) =>
        /\ response[1].status = 500
        /\ response[1].error = "Financial calculation failed"
        /\ "results" \notin DOMAIN response[1]
        /\ analyses = <<>>

\* ---------------------------------------------------------------------------
\* The protected routes of the server and verifyFirebaseToken in front of each.

\* The routes registered with verifyFirebaseToken before their handler.
ProtectedRoutes ==
    {"POST /api/chatbot", "POST /api/chatbot/modify", "POST /api/calculate",
     "POST /api/query-results", "GET /api/analyses",
     "GET /api/analyses/:analysisId", "DELETE /api/analyses/:analysisId"}

\* The ID tokens a client may send: "" is the empty string, two are tokens that
\* Firebase issued to a user, the others are expired or forged.
Tokens == {"", "expired", "forged", "token of A", "token of B"}

\* req.headers.authorization: <<>> when the header is missing, otherwise the
\* header's text as the scheme it begins with followed by the rest.
AuthorizationHeaders ==
    {<<>>} \cup {<<[scheme |-> s, rest |-> t]>> :
                    s \in {"Bearer ", "bearer ", "Basic "}, t \in Tokens}

GateRequests ==
    [route : ProtectedRoutes, authorization : AuthorizationHeaders, user : {<<>>}]

\* authHeader.startsWith('Bearer ')
StartsWithBearer(authHeader) == authHeader[1].scheme = "Bearer "

\* authHeader.split('Bearer ')[1] of a header that starts with 'Bearer '.
IdTokenOf(authHeader) == authHeader[1].rest

\* admin.auth().verifyIdToken(idToken): <<decodedToken>> when the promise
\* resolves, <<>> when it rejects.
verifyIdToken(idToken) ==
    CASE idToken = "token of A" -> <<[uid |-> UserA]>>
      [] idToken = "token of B" -> <<[uid |-> UserB]>>
      [] OTHER -> <<>>

GateInit ==
    /\ pc = "route"
    /\ params = NoArgument
    /\ NothingComputed
    /\ error = <<>>
    /\ other = <<>>
    /\ returned = <<>>
    /\ request \in GateRequests
    /\ firestoreService = FALSE
    /\ response = <<>>
    /\ analyses = <<>>
    /\ calls = <<>>
    /\ reply = <<>>
    /\ NothingElsewhere

\* A gate that lets the request through when the token cannot be verified.
verifyFirebaseTokenFailingOpen ==
    /\ pc = "route"
    /\ IF request.authorization = <<>> \/ ~StartsWithBearer(request.authorization)
       THEN /\ response' = <<[status |-> 401, error |-> "No authorization token provided"]>>
            /\ pc' = "responded"
            /\ UNCHANGED <<request, invoked>>
       ELSE /\ request' = [request EXCEPT !.user =
                              verifyIdToken(IdTokenOf(request.authorization))]
            /\ invoked' = invoked \cup {request.route}
            /\ pc' = "handler"
            /\ UNCHANGED response
    /\ UNCHANGED <<params, parameters, discountRate, analysisHorizon, locals, results,
                   error, other, returned, firestoreService, analyses, calls, reply,
                   iteration, unsanitized, sanitized, currentParameters, parsed,
                   merged, inputMessage, isTyping, currentUser, sends, onMessageCalls>>

\* verifyFirebaseToken(req, res, next): 401 without a Bearer header, 401 when
\* verifyIdToken rejects, otherwise req.user = decodedToken and next(), which
\* invokes the handler of the route.
verifyFirebaseToken ==
    /\ pc = "route"
    /\ IF request.authorization = <<>> \/ ~StartsWithBearer(request.authorization)
       THEN /\ response' = <<[status |-> 401, error |-> "No authorization token provided"]>>
            /\ pc' = "responded"
            /\ UNCHANGED <<request, invoked>>
       ELSE IF verifyIdToken(IdTokenOf(request.authorization)) = <<>>
       THEN /\ response' = <<[status |-> 401, error |-> "Invalid authorization token"]>>
            /\ pc' = "responded"
            /\ UNCHANGED <<request, invoked>>
       ELSE /\ request' = [request EXCEPT !.user =
                              verifyIdToken(IdTokenOf(request.authorization))]
            /\ invoked' = invoked \cup {request.route}
            /\ pc' = "handler"
            /\ UNCHANGED response
    /\ UNCHANGED <<params, parameters, discountRate, analysisHorizon, locals, results,
                   error, other, returned, firestoreService, analyses, calls, reply,
                   iteration, unsanitized, sanitized, currentParameters, parsed,
                   merged, inputMessage, isTyping, currentUser, sends, onMessageCalls>>

\* The statuses with which the handlers of the protected routes answer.
HandlerStatuses == {200, 400, 404, 500}

\* The handler of the route, invoked by next(): it answers the request.
RouteHandler ==
    /\ pc = "handler"
    /\ \E status \in HandlerStatuses : response' = <<[status |-> status]>>
    /\ pc' = "responded"
    /\ UNCHANGED <<params, parameters, discountRate, analysisHorizon, locals, results,
                   error, other, returned, request, firestoreService, analyses, calls,
                   reply, elsewhere>>

GateNext ==
    \/ verifyFirebaseToken
    \/ RouteHandler

GateSpec == GateInit /\ [][GateNext]_vars

\* The request has no Authorization header, or one that does not start with
\* 'Bearer ', or carries a token that fails verification.
NotAuthorized ==
    \/ request.authorization = <<>>
    \/ request.authorization[1].scheme # "Bearer "
    \/ request.authorization[1].rest \notin {"token of A", "token of B"}

\* C21: every protected endpoint is gated by token verification. A request
\* with no Authorization header, with a header that does not start with
\* 'Bearer ', or with a token that fails verification is answered 401, and the
\* handler of the endpoint is never invoked for it.
C21_ProtectedEndpointsGated ==
    NotAuthorized =>
        /\ invoked = {}
        /\ request.user = <<>>
        /\ pc \in {"route", "responded"}
        /\ pc = "responded" => response # <<>> /\ response[1].status = 401

\* A request with a Bearer header whose token fails verification was answered
\* 401 at a protected endpoint.
C21_Witness ==
    /\ pc = "responded"
    /\ "authorization" \in DOMAIN request
    /\ request.authorization # <<>>
    /\ request.authorization[1].scheme = "Bearer "
    /\ request.authorization[1].rest = "forged"
    /\ request.route = "DELETE /api/analyses/:analysisId"
    /\ response[1].status = 401
    /\ invoked = {}

\* ---------------------------------------------------------------------------
\* FirestoreService.sanitizeData on nested values.

\* The greatest nesting depth and the greatest number of elements of an array
\* among the values handed to sanitizeData.
MaxDepth == 2
MaxItems == 2

\* A function value.
Fn == <<0, -4>>

\* A JavaScript value: a primitive, an array of values, or a plain object.
Prim(v) == [kind |-> "primitive", value |-> v]
Arr(items) == [kind |-> "array", items |-> items]
Obj(props) == [kind |-> "object", props |-> props]

Primitives == {Prim(v) : v \in {N(1), NaN, PosInf, Undefined, Null, Fn}}

\* The property names of the objects.
Keys == {"a", "b"}

RECURSIVE ValuesOfDepth(_)
ValuesOfDepth(d) ==
    IF d = 0
    THEN Primitives
    ELSE LET V == ValuesOfDepth(d - 1)
         IN V \cup {Arr(s) : s \in UNION {[1..n -> V] : n \in 0..MaxItems}}
              \cup {Obj(f) : f \in UNION {[K -> V] : K \in SUBSET Keys}}

\* value === undefined || typeof value === 'function'
IsDropped(value) == value.kind = "primitive" /\ value.value \in {Undefined, Fn}

\* typeof value === 'number' && (isNaN(value) || !isFinite(value))
IsBadNumber(value) ==
    /\ value.kind = "primitive"
    /\ IsNaN(value.value) \/ IsInf(value.value)

RECURSIVE sanitizeData(_)
sanitizeData(data) ==
    IF data.kind = "primitive"
    THEN IF data.value \in {Null, Undefined} THEN Prim(Null) ELSE data
    ELSE IF data.kind = "array"
    THEN Arr([i \in DOMAIN data.items |-> sanitizeData(data.items[i])])
    ELSE Obj([key \in {k \in DOMAIN data.props : ~IsDropped(data.props[k])} |->
                IF IsBadNumber(data.props[key])
                THEN Prim(Null)
                ELSE sanitizeData(data.props[key])])

SanitizeInit ==
    /\ pc = "sanitize"
    /\ params = NoArgument
    /\ NothingComputed
    /\ error = <<>>
    /\ other = <<>>
    /\ returned = <<>>
    /\ request = <<>>
    /\ firestoreService = TRUE
    /\ response = <<>>
    /\ analyses = <<>>
    /\ calls = <<>>
    /\ reply = <<>>
    /\ iteration = 0
    /\ invoked = {}
    /\ unsanitized \in {<<data>> : data \in ValuesOfDepth(MaxDepth)}
    /\ sanitized = <<>>
    /\ currentParameters = <<>>
    /\ parsed = <<>>
    /\ merged = <<>>
    /\ inputMessage = ""
    /\ isTyping = FALSE
    /\ currentUser = FALSE
    /\ sends = <<>>
    /\ onMessageCalls = <<>>

Sanitize ==
    /\ pc = "sanitize"
    /\ sanitized' = <<sanitizeData(unsanitized[1])>>
    /\ pc' = "sanitized"
    /\ UNCHANGED <<params, parameters, discountRate, analysisHorizon, locals, results,
                   error, other, returned, server, iteration, invoked, unsanitized,
                   currentParameters, parsed, merged, inputMessage, isTyping,
                   currentUser, sends, onMessageCalls>>

SanitizeNext == Sanitize

SanitizeSpec == SanitizeInit /\ [][SanitizeNext]_vars

\* No undefined, function, NaN or infinity at any nesting depth of the value.
RECURSIVE Clean(_)
Clean(value) ==
    IF value.kind = "primitive"
    THEN /\ value.value \notin {Undefined, Fn}
         /\ ~IsNaN(value.value)
         /\ ~IsInf(value.value)
    ELSE IF value.kind = "array"
    THEN \A i \in DOMAIN value.items : Clean(value.items[i])
    ELSE \A k \in DOMAIN value.props : Clean(value.props[k])

\* C24: sanitizeData returns a value with no undefined, no function, no NaN and
\* no infinity at any nesting depth; an array keeps its length, with its
\* undefined and NaN elements replaced by null; a top-level null or undefined
\* becomes null.
C24_SanitizedHoldsNothingFirestoreRejects ==
    sanitized # <<>> =>
        /\ Clean(sanitized[1])
        /\ unsanitized[1].kind = "array" =>
              /\ sanitized[1].kind = "array"
              /\ Len(sanitized[1].items) = Len(unsanitized[1].items)
              /\ \A i \in DOMAIN unsanitized[1].items :
                    unsanitized[1].items[i] \in {Prim(Undefined), Prim(NaN)}
                        => sanitized[1].items[i] = Prim(Null)
        /\ unsanitized[1] \in {Prim(Null), Prim(Undefined)} => sanitized[1] = Prim(Null)

\* ---------------------------------------------------------------------------
\* GeminiAIService: validating the parameters of the AI response and merging
\* them into the current parameters.

\* 'EUR', and ' EUR ' as an AI response may spell it.
StrEUR == Str(7)
StrPaddedEUR == Str(8)

\* String(value).trim() of a string.
Trim(value) == IF value = StrPaddedEUR THEN StrEUR ELSE value

Rule(type, min, max, default) ==
    [type |-> type, min |-> min, max |-> max, default |-> default]

\* const parameterRules of validateParameters; Undefined where a rule has no
\* min, max or default. No rule is required.
parameterRules ==
    [key \in RawFields |->
        CASE key = "vesselType" -> Rule("string", Undefined, Undefined, Undefined)
          [] key = "age" -> Rule("number", N(0), N(50), Undefined)
          [] key = "price" -> Rule("number", N(100000), N(1000000000), Undefined)
          [] key = "dwt" -> Rule("number", N(1000), N(500000), Undefined)
          [] key = "currency" -> Rule("string", Undefined, Undefined, StrUSD)
          [] key = "downPaymentPercent" -> Rule("number", N(0), N(100), Undefined)
          [] key = "loanTermYears" -> Rule("number", N(1), N(30), Undefined)
          [] key = "interestRatePercent" -> Rule("number", N(0), N(20), Undefined)
          [] key = "dailyCharterRate" -> Rule("number", N(1000), N(100000), Undefined)
          [] key = "opexPerDay" -> Rule("number", N(500), N(20000), Undefined)
          [] key = "utilizationPercent" -> Rule("number", N(1), N(100), Undefined)
          [] key = "scrapValue" -> Rule("number", N(0), N(1000000000), Undefined)]

\* validateParameters throws on the value of key: not a number, below min or
\* above max.
RuleBroken(key, value) ==
    /\ ~IsAbsent(value)
    /\ parameterRules[key].type = "number"
    /\ \/ IsNaN(parseFloat(value))
       \/ /\ parameterRules[key].min # Undefined
          /\ Lt(parseFloat(value), parameterRules[key].min)
       \/ /\ parameterRules[key].max # Undefined
          /\ Gt(parseFloat(value), parameterRules[key].max)

\* validated[key] of validateParameters when nothing is thrown.
ValidatedValue(key, value) ==
    IF IsAbsent(value)
    THEN IF parameterRules[key].default # Undefined
         THEN parameterRules[key].default
         ELSE Null
    ELSE IF parameterRules[key].type = "number"
    THEN parseFloat(value)
    ELSE Trim(value)

\* validateParameters(parameters): <<validated>>, or <<>> when it throws.
validateParameters(p) ==
    IF \E key \in RawFields : RuleBroken(key, p[key])
    THEN <<>>
    ELSE <<[key \in RawFields |-> ValidatedValue(key, p[key])]>>

\* { ...currentParameters } with every non-null validated value written over it.
MergedInto(current, validated) ==
    [key \in RawFields |->
        IF ~IsAbsent(validated[key]) THEN validated[key] ELSE current[key]]

\* Object.fromEntries of the validated entries whose value is not null.
ModificationsOf(validated) ==
    [key \in {k \in RawFields : ~IsAbsent(validated[k])} |-> validated[key]]

\* The current parameters: a key the object lacks reads as undefined.
CurrentParameterMaps ==
    {[key \in RawFields |->
        CASE key = "vesselType" -> t
          [] key = "price" -> p
          [] key = "currency" -> c
          [] key = "downPaymentPercent" -> d
          [] OTHER -> Undefined] :
        t \in {Undefined, StrBulkCarrier}, p \in {Undefined, N(25000000)},
        c \in {Undefined, StrUSD, StrEUR}, d \in {Undefined, N(20)}}

\* parsed.parameters: the JSON object of the AI response, null for what the
\* message does not mention.
ParsedParameterMaps ==
    {[key \in RawFields |->
        CASE key = "vesselType" -> t
          [] key = "price" -> p
          [] key = "currency" -> c
          [] key = "downPaymentPercent" -> d
          [] OTHER -> Null] :
        t \in {Null, StrBulkCarrier}, p \in {Null, N(30000000), N(30)},
        c \in {Null, StrUSD, StrPaddedEUR}, d \in {Null, N(25)}}

MergeInit ==
    /\ pc = "ai"
    /\ params = NoArgument
    /\ NothingComputed
    /\ error = <<>>
    /\ other = <<>>
    /\ returned = <<>>
    /\ request = <<>>
    /\ firestoreService = FALSE
    /\ response = <<>>
    /\ analyses = <<>>
    /\ calls = <<>>
    /\ reply = <<>>
    /\ iteration = 0
    /\ invoked = {}
    /\ unsanitized = <<>>
    /\ sanitized = <<>>
    /\ currentParameters \in CurrentParameterMaps
    /\ parsed \in ParsedParameterMaps
    /\ merged = <<>>
    /\ inputMessage = ""
    /\ isTyping = FALSE
    /\ currentUser = FALSE
    /\ sends = <<>>
    /\ onMessageCalls = <<>>

\* extractParameters from the parsed AI response on.
extractParameters ==
    /\ pc = "ai"
    /\ IF validateParameters(parsed) = <<>>
       THEN /\ error' = <<"AI parameter extraction failed">>
            /\ pc' = "threw"
            /\ UNCHANGED merged
       ELSE /\ merged' = <<[parameters |->
                              MergedInto(currentParameters, validateParameters(parsed)[1])]>>
            /\ pc' = "returned"
            /\ UNCHANGED error
    /\ UNCHANGED <<params, parameters, discountRate, analysisHorizon, locals, results,
                   other, returned, server, iteration, invoked, unsanitized, sanitized,
                   currentParameters, parsed, inputMessage, isTyping, currentUser,
                   sends, onMessageCalls>>

\* modifyScenario from the parsed AI response on.
modifyScenario ==
    /\ pc = "ai"
    /\ IF validateParameters(parsed) = <<>>
       THEN /\ error' = <<"AI scenario modification failed">>
            /\ pc' = "threw"
            /\ UNCHANGED merged
       ELSE /\ merged' = <<[updatedParameters |->
                              MergedInto(currentParameters, validateParameters(parsed)[1]),
                            modifications |->
                              ModificationsOf(validateParameters(parsed)[1])]>>
            /\ pc' = "returned"
            /\ UNCHANGED error
    /\ UNCHANGED <<params, parameters, discountRate, analysisHorizon, locals, results,
                   other, returned, server, iteration, invoked, unsanitized, sanitized,
                   currentParameters, parsed, inputMessage, isTyping, currentUser,
                   sends, onMessageCalls>>

MergeNext ==
    \/ extractParameters
    \/ modifyScenario

MergeSpec == MergeInit /\ [][MergeNext]_vars

\* The merged parameters a call returned.
MergedParameters ==
    IF "parameters" \in DOMAIN merged[1]
    THEN merged[1].parameters
    ELSE merged[1].updatedParameters

\* C25: parameter merging preserves unmentioned values. In extractParameters
\* and in modifyScenario every parameter the AI response leaves null keeps
\* exactly the value it had in currentParameters, and the modifications of
\* modifyScenario hold exactly the parameters the AI response gave a non-null
\* value for.
C25_MergePreservesUnmentioned ==
    merged # <<>> =>
        /\ \A key \in RawFields :
              IsAbsent(parsed[key]) => MergedParameters[key] = currentParameters[key]
        /\ "modifications" \in DOMAIN merged[1] =>
              DOMAIN merged[1].modifications = {k \in RawFields : ~IsAbsent(parsed[k])}

\* ---------------------------------------------------------------------------
\* ChatbotPanel: handleSendMessage and the requests it has under way.

\* The greatest number of sends the panel starts.
MaxSends == 3

\* What the user may have in the input, and String.prototype.trim on it.
Texts == {"", " ", " hello "}

TrimText(text) ==
    CASE text = " " -> ""
      [] text = " hello " -> "hello"
      [] OTHER -> text

\* The texts of the AI reply in the response body, the fallback text and the
\* apology of the catch block.
StrAiResponse == Str(9)
StrResponse == Str(10)
StrReceived == Str(11)
StrSorry == Str(12)

\* The bodies response.json() may resolve to; an object is <<object>>, a field
\* that is missing or null <<>>. The reply is in aiResponse, in response, in both
\* or in neither, and so are the parameters.
Bodies ==
    {[aiResponse |-> IF "a" \in r THEN StrAiResponse ELSE Undefined,
      response |-> IF "b" \in r THEN StrResponse ELSE Undefined,
      parameters |-> IF "a" \in r THEN <<BaseParams>> ELSE <<>>,
      extractedParameters |-> IF "b" \in r THEN <<BaseParams>> ELSE <<>>] :
        r \in SUBSET {"a", "b"}}

\* data.aiResponse || data.response || 'AI response received'
AiResponseOf(body) == OrElse(OrElse(body.aiResponse, body.response), StrReceived)

\* data.parameters || data.extractedParameters || null
ExtractedParametersOf(body) ==
    IF body.parameters # <<>> THEN body.parameters ELSE body.extractedParameters

\* The handleSendMessage calls that are waiting for a promise.
InFlight == {i \in DOMAIN sends : sends[i].at \notin {"done", "failed"}}

ChatInit ==
    /\ pc = "panel"
    /\ params = NoArgument
    /\ NothingComputed
    /\ error = <<>>
    /\ other = <<>>
    /\ returned = <<>>
    /\ request = <<>>
    /\ firestoreService = FALSE
    /\ response = <<>>
    /\ analyses = <<>>
    /\ calls = <<>>
    /\ reply = <<>>
    /\ iteration = 0
    /\ invoked = {}
    /\ unsanitized = <<>>
    /\ sanitized = <<>>
    /\ currentParameters = <<>>
    /\ parsed = <<>>
    /\ merged = <<>>
    /\ inputMessage = ""
    /\ isTyping = FALSE
    /\ currentUser \in BOOLEAN
    /\ sends = <<>>
    /\ onMessageCalls = <<>>

notPanel == <<pc, params, parameters, discountRate, analysisHorizon, locals, results,
              error, other, returned, server, iteration, invoked, unsanitized,
              sanitized, currentParameters, parsed, merged>>

\* onChange of the textarea, which is disabled while isTyping.
ChangeInput ==
    /\ ~isTyping
    /\ \E text \in Texts : inputMessage' = text
    /\ UNCHANGED <<notPanel, isTyping, currentUser, sends, onMessageCalls>>

\* handleSendMessage up to its first await.
handleSendMessage ==
    /\ Len(sends) < MaxSends
    /\ IF TrimText(inputMessage) = "" \/ isTyping \/ ~currentUser
       THEN UNCHANGED <<inputMessage, isTyping, sends>>
       ELSE /\ sends' = Append(sends, [message |-> TrimText(inputMessage),
                                       at |-> "getIdToken", body |-> <<>>])
            /\ inputMessage' = ""
            /\ isTyping' = TRUE
    /\ UNCHANGED <<notPanel, currentUser, onMessageCalls>>

\* A catch block that swallows the error.
CaughtSilently(i) ==
    /\ sends' = [sends EXCEPT ![i].at = "failed"]
    /\ isTyping' = FALSE
    /\ UNCHANGED <<notPanel, inputMessage, currentUser, onMessageCalls>>

\* catch: onMessage with the apology and null; finally: setIsTyping(false).
Caught(i) ==
    /\ onMessageCalls' = Append(onMessageCalls,
          [send |-> i, message |-> sends[i].message, aiResponse |-> StrSorry,
           extractedParameters |-> <<>>])
    /\ sends' = [sends EXCEPT ![i].at = "failed"]
    /\ isTyping' = FALSE
    /\ UNCHANGED <<notPanel, inputMessage, currentUser>>

\* A step of send i that only moves it to its next await.
Await(i, at) ==
    /\ sends' = [sends EXCEPT ![i].at = at]
    /\ UNCHANGED <<notPanel, inputMessage, isTyping, currentUser, onMessageCalls>>

\* await auth.currentUser.getIdToken() settles.
IdTokenSettles ==
    \E i \in InFlight :
        /\ sends[i].at = "getIdToken"
        /\ \/ Await(i, "fetch")
           \/ Caught(i)

\* await fetch(...) settles: an ok response, a non-ok response, or a rejection.
FetchSettles ==
    \E i \in InFlight :
        /\ sends[i].at = "fetch"
        /\ \/ Await(i, "json")
           \/ Await(i, "text")
           \/ Caught(i)

\* await response.text() of a non-ok response settles; the Error is thrown.
TextSettles ==
    \E i \in InFlight :
        /\ sends[i].at = "text"
        /\ Caught(i)

\* await response.json() settles: onMessage with the reply, or the catch.
JsonSettles ==
    \E i \in InFlight :
        /\ sends[i].at = "json"
        /\ \/ \E body \in Bodies :
                 /\ onMessageCalls' = Append(onMessageCalls,
                       [send |-> i, message |-> sends[i].message,
                        aiResponse |-> AiResponseOf(body),
                        extractedParameters |-> ExtractedParametersOf(body)])
                 /\ sends' = [sends EXCEPT ![i].at = "done", ![i].body = <<body>>]
                 /\ isTyping' = FALSE
                 /\ UNCHANGED <<notPanel, inputMessage, currentUser>>
           \/ Caught(i)

Settles ==
    \/ IdTokenSettles
    \/ FetchSettles
    \/ TextSettles
    \/ JsonSettles

ChatNext ==
    \/ ChangeInput
    \/ handleSendMessage
    \/ Settles

\* Every promise a send waits for settles.
ChatSpec ==
    /\ ChatInit
    /\ [][ChatNext]_vars
    /\ []<>(InFlight = {}) \/ []<><<Settles>>_vars

\* The onMessage calls made for send i.
CallsOf(i) == {c \in DOMAIN onMessageCalls : onMessageCalls[c].send = i}

\* Send i called onMessage as its outcome demands.
CalledOnce(i) ==
    /\ i \in InFlight => CallsOf(i) = {}
    /\ i \notin InFlight =>
          /\ Cardinality(CallsOf(i)) = 1
          /\ \A c \in CallsOf(i) :
                /\ onMessageCalls[c].message = sends[i].message
                /\ sends[i].at = "failed" =>
                      /\ onMessageCalls[c].aiResponse = StrSorry
                      /\ onMessageCalls[c].extractedParameters = <<>>
                /\ sends[i].at = "done" =>
                      /\ onMessageCalls[c].aiResponse \in
                            {sends[i].body[1].aiResponse, sends[i].body[1].response,
                             StrReceived} \ {Undefined}
                      /\ onMessageCalls[c].extractedParameters \in
                            {sends[i].body[1].parameters,
                             sends[i].body[1].extractedParameters}

OneSendAtATime ==
    /\ Cardinality(InFlight) <= 1
    /\ isTyping <=> InFlight # {}
    /\ \A i \in DOMAIN sends : CalledOnce(i)
    /\ Len(onMessageCalls) = Cardinality(DOMAIN sends \ InFlight)

\* C30: in ChatbotPanel at most one chat request is in flight at a time, and
\* every started send completes exactly once: no send starts while isTyping;
\* each started send calls onMessage exactly once, with the AI reply and the
\* extracted parameters on success, with the apology and null when the request
\* fails or is answered with a non-ok status; afterwards isTyping is false.
C30_OneSendInFlightEachCompletesOnce ==
    /\ []OneSendAtATime
    /\ [][isTyping => Len(sends') = Len(sends)]_vars
    /\ \A i \in 1..MaxSends :
          (Len(sends) >= i) ~> (Len(sends) >= i /\ i \notin InFlight)

\* A first send failed and called onMessage with the apology; a second one is
\* under way.
C30_Witness ==
    /\ Len(sends) = 2
    /\ sends[1].at = "failed"
    /\ sends[2].at = "json"
    /\ Len(onMessageCalls) = 1
    /\ onMessageCalls[1].aiResponse = StrSorry
    /\ isTyping

=============================================================================
